---- MODULE Spec2Model ----
(***************************************************************************)
(* Model of the agentic engine of sheikh-cli (src/src/core/agentic-engine.js): *)
(* the task planner and plan executor of AgentCoordinator, the change      *)
(* coordinator, the codebase search of CodebaseAnalyzer, the task flow of   *)
(* AgenticEngine.executeAgenticTask, the file analysis, index builds and   *)
(* report of CodebaseAnalyzer, AgenticEngine.initialize, the ids of plans   *)
(* under a clock, executePlan calls in flight together and WorkflowBuilder; *)
(* with them EnhancedChatSession (src/src/cli-enhanced.js) and              *)
(* AgentsManager (src/src/agents/index.js).                                 *)
(*                                                                         *)
(* JavaScript strings whose characters matter (task texts, queries, paths) *)
(* are sequences of one-character strings, so that includes, endsWith,     *)
(* split and toLowerCase are computed character by character.  Strings     *)
(* that are only compared for equality (ids, agent names, statuses) are    *)
(* TLA+ strings.                                                           *)
(***************************************************************************)
EXTENDS Integers, Sequences, FiniteSets, TLC

----------------------------------------------------------------------------
(* Bounds of the model *)

\* longest task text, in words of Vocabulary
MaxWords == 2

\* longest plan handed directly to executePlan
MaxSteps == 2

\* number of approvals the approval system may accumulate in one run
MaxApprovals == 1

\* longest batch of changes handed to coordinateChanges
MaxBatch == 4

\* most files enumerated by one build of the index
MaxFiles == 2

\* longest query, in words of QueryWords
MaxQueryTerms == 2

\* longest content handed to the analysis of one file, in statements
MaxFragments == 2

\* number of builds of the index in one run
MaxBuilds == 2

\* largest value of Date.now(), in milliseconds since the first call
MaxDate == 1

\* most entries of the conversation history of a chat
MaxHistory == 2

\* most steps of a workflow builder
MaxWorkflowSteps == 3

----------------------------------------------------------------------------
(* Strings as sequences of characters *)

Letters ==
  [ upper |->
      <<"A","B","C","D","E","F","G","H","I","J","K","L","M",
        "N","O","P","Q","R","S","T","U","V","W","X","Y","Z">>,
    lower |->
      <<"a","b","c","d","e","f","g","h","i","j","k","l","m",
        "n","o","p","q","r","s","t","u","v","w","x","y","z">> ]

\* String.prototype.toLowerCase on one character
ToLowerChar(c) ==
  IF \E i \in 1..26 : Letters.upper[i] = c
  THEN Letters.lower[CHOOSE i \in 1..26 : Letters.upper[i] = c]
  ELSE c

\* String.prototype.toLowerCase
toLowerCase(s) == [i \in 1..Len(s) |-> ToLowerChar(s[i])]

\* String.prototype.includes: t occurs in s as a contiguous substring
includes(s, t) ==
  \E i \in 0..(Len(s) - Len(t)) : SubSeq(s, i + 1, i + Len(t)) = t

\* String.prototype.endsWith
endsWith(s, t) ==
  /\ Len(t) <= Len(s)
  /\ SubSeq(s, Len(s) - Len(t) + 1, Len(s)) = t

\* Array.prototype.includes on a sequence
arrayIncludes(a, x) == \E i \in 1..Len(a) : a[i] = x

\* words joined by single spaces (Array.prototype.join(' '))
RECURSIVE Join(_)
Join(ws) ==
  IF Len(ws) = 0 THEN <<>>
  ELSE IF Len(ws) = 1 THEN ws[1]
  ELSE ws[1] \o <<" ">> \o Join(Tail(ws))

\* the sequences over S of length lo..hi
SeqsOf(S, lo, hi) == UNION {[1..n -> S] : n \in lo..hi}

----------------------------------------------------------------------------
(* Keywords of AgentCoordinator.analyzeRequirements *)

Kw ==
  [ create |-> <<"c","r","e","a","t","e">>,
    add |-> <<"a","d","d">>,
    modify |-> <<"m","o","d","i","f","y">>,
    update |-> <<"u","p","d","a","t","e">>,
    change |-> <<"c","h","a","n","g","e">>,
    delete |-> <<"d","e","l","e","t","e">>,
    remove |-> <<"r","e","m","o","v","e">>,
    test |-> <<"t","e","s","t">>,
    spec |-> <<"s","p","e","c">>,
    git |-> <<"g","i","t">>,
    commit |-> <<"c","o","m","m","i","t">>,
    push |-> <<"p","u","s","h">> ]

(* Task texts given to createPlan and executeAgenticTask *)

Word ==
  [ Create |-> <<"C","r","e","a","t","e">>,
    a |-> <<"a">>,
    new |-> <<"n","e","w">>,
    module |-> <<"m","o","d","u","l","e">>,
    tests |-> <<"t","e","s","t","s">>,
    files |-> <<"f","i","l","e","s">> ]

\* Beside the texts over Vocabulary: "Create a new module", a task that
\* opens with a capital letter as the tasks of the tests do ("Create a new
\* authentication module"), and "create update tests commit", a task that
\* names every kind of work the planner has a step for
Tasks ==
  LET Vocabulary == { Word.Create, Kw.create, Kw.update, Kw.delete,
                      Word.tests, Kw.commit, Word.files }
  IN {Join(ws) : ws \in SeqsOf(Vocabulary, 1, MaxWords)}
    \cup { Join(<<Word.Create, Word.a, Word.new, Word.module>>),
           Join(<<Kw.create, Kw.update, Word.tests, Kw.commit>>) }

----------------------------------------------------------------------------
(* AgentCoordinator: task planner *)

\* Requirement extraction: String.prototype.includes on the task as given
analyzeRequirements(task) ==
  [ fileOperations |->
        (IF includes(task, Kw.create) \/ includes(task, Kw.add)
         THEN <<"create">> ELSE <<>>)
     \o (IF includes(task, Kw.modify) \/ includes(task, Kw.update)
            \/ includes(task, Kw.change)
         THEN <<"modify">> ELSE <<>>)
     \o (IF includes(task, Kw.delete) \/ includes(task, Kw.remove)
         THEN <<"delete">> ELSE <<>>),
    codeAnalysis   |-> <<>>,
    testing        |-> (includes(task, Kw.test) \/ includes(task, Kw.spec)),
    gitOperations  |->
        (IF includes(task, Kw.git) \/ includes(task, Kw.commit)
            \/ includes(task, Kw.push)
         THEN <<"commit">> ELSE <<>>),
    dependencies   |-> <<>> ]

Step(id, action, agent, critical, estimatedTime) ==
  [ id |-> id, action |-> action, agent |-> agent,
    critical |-> critical, estimatedTime |-> estimatedTime ]

\* One fixed step template per requirement, in a fixed order
generateSteps(requirements) ==
     (IF arrayIncludes(requirements.fileOperations, "create")
      THEN << Step("create_files", "Create necessary files",
                   "multi-file-editor", TRUE, 30) >>
      ELSE <<>>)
  \o (IF arrayIncludes(requirements.fileOperations, "modify")
      THEN << Step("modify_files", "Modify existing files",
                   "multi-file-editor", TRUE, 45) >>
      ELSE <<>>)
  \o (IF requirements.testing
      THEN << Step("run_tests", "Run test suite",
                   "test-coordinator", FALSE, 60) >>
      ELSE <<>>)
  \o (IF arrayIncludes(requirements.gitOperations, "commit")
      THEN << Step("git_commit", "Commit changes",
                   "git-workflow", FALSE, 15) >>
      ELSE <<>>)

RECURSIVE calculateDependenciesFrom_EveryAdjacentPair(_, _)
calculateDependenciesFrom_EveryAdjacentPair(steps, i) ==
  IF i > Len(steps) THEN <<>>
  ELSE << [from |-> steps[i-1].id, to |-> steps[i].id] >>
       \o calculateDependenciesFrom_EveryAdjacentPair(steps, i + 1)

\* An edge between adjacent steps whose agents differ
RECURSIVE calculateDependenciesFrom(_, _)
calculateDependenciesFrom(steps, i) ==
  IF i > Len(steps) THEN <<>>
  ELSE (IF steps[i].agent # steps[i-1].agent
        THEN << [from |-> steps[i-1].id, to |-> steps[i].id] >>
        ELSE <<>>)
       \o calculateDependenciesFrom(steps, i + 1)

calculateDependencies(steps) == calculateDependenciesFrom(steps, 2)

RECURSIVE estimateTime(_)
estimateTime(steps) ==
  IF Len(steps) = 0 THEN 0
  ELSE steps[1].estimatedTime + estimateTime(Tail(steps))

assessRisk_MediumAboveThree(plan) ==
  IF \E i \in 1..Len(plan.steps) : plan.steps[i].agent = "security-auditor"
  THEN "high"
  ELSE IF Len(plan.steps) > 3 THEN "medium"
  ELSE "low"

assessRisk(plan) ==
  IF \E i \in 1..Len(plan.steps) : plan.steps[i].agent = "security-auditor"
  THEN "high"
  ELSE IF Len(plan.steps) > 5 THEN "medium"
  ELSE "low"

\* now is what Date.now() returns when the call starts; Number.prototype
\* .toString gives its decimal digits
createPlan(task, now) ==
  LET steps == generateSteps(analyzeRequirements(task))
      draft == [ id |-> ToString(now), task |-> task, steps |-> steps,
                 dependencies |-> calculateDependencies(steps),
                 estimatedTime |-> estimateTime(steps), risk |-> "low" ]
  IN [draft EXCEPT !.risk = assessRisk(draft)]

----------------------------------------------------------------------------
(* AgentCoordinator: plan executor *)

\* result.error / error.message of a step whose simulated work throws

\* what the body of executeStep's try block does: completes, or throws
NoFault == "none"
Faults == {NoFault, "timer failed", "agent crashed"}

\* JavaScript null
Null == "null"

\* One step: the result record starts pending; the try block either
\* completes (an editor step then records one simulated change) or throws
\* and the catch block turns the record into an error result.
executeStep(step, fault) ==
  IF fault = NoFault
  THEN [ stepId |-> step.id, action |-> step.action, status |-> "completed",
         output |-> "Successfully completed: " \o step.action,
         error |-> Null,
         changes |-> IF step.agent = "multi-file-editor"
                     THEN << [ type |-> "file_modified",
                               file |-> "example.js",
                               lines |-> "10-15" ] >>
                     ELSE <<>> ]
  ELSE [ stepId |-> step.id, action |-> step.action, status |-> "error",
         output |-> Null, error |-> fault, changes |-> <<>> ]

\* the results object executePlan starts with
InitialResults ==
  [ status |-> "running", steps |-> <<>>, errors |-> <<>>, changes |-> <<>> ]

CriticalMessage(error) == "Critical step failed: " \o error

\* executePlanStep without the throw for a failed critical step
executePlanStep_NeverThrows(res, step, stepResult) ==
  LET r1 == [res EXCEPT !.steps = Append(@, stepResult)]
      r2 == IF stepResult.status = "error"
            THEN [r1 EXCEPT !.errors = Append(@, stepResult.error)]
            ELSE r1
  IN [ results |-> [r2 EXCEPT !.changes = @ \o stepResult.changes],
       thrown |-> Null ]

\* executePlanStep throwing for every failed step, critical or not
executePlanStep_ThrowsOnAnyError(res, step, stepResult) ==
  LET r1 == [res EXCEPT !.steps = Append(@, stepResult)]
  IN IF stepResult.status = "error"
     THEN [ results |-> [r1 EXCEPT !.errors = Append(@, stepResult.error)],
            thrown |-> CriticalMessage(stepResult.error) ]
     ELSE [ results |-> [r1 EXCEPT !.changes = @ \o stepResult.changes],
            thrown |-> Null ]

\* Body of the for loop of executePlan for one step and its result: the
\* updated results object, and the message of the Error it throws (Null
\* when the iteration completes normally).
executePlanStep(res, step, stepResult) ==
  LET r1 == [res EXCEPT !.steps = Append(@, stepResult)]
      failed == stepResult.status = "error"
      r2 == IF failed
            THEN [r1 EXCEPT !.errors = Append(@, stepResult.error)]
            ELSE r1
  IN IF failed /\ step.critical
     THEN [ results |-> r2, thrown |-> CriticalMessage(stepResult.error) ]
     ELSE [ results |-> [r2 EXCEPT !.changes = @ \o stepResult.changes],
            thrown |-> Null ]

\* a catch block that records the message and leaves the status alone
executePlanCatch_StatusKept(res, message) ==
  [res EXCEPT !.errors = Append(@, message)]

\* catch block of executePlan
executePlanCatch(res, message) ==
  [res EXCEPT !.status = "failed", !.errors = Append(@, message)]

\* end of the try block of executePlan, reached when the loop is exhausted
executePlanComplete(res) == [res EXCEPT !.status = "completed"]

----------------------------------------------------------------------------
(* ApprovalSystem *)

createApproval(res) == [ changes |-> res.changes, status |-> "pending" ]

\* "For demo purposes, always approve"
requestApproval(approval) == TRUE

----------------------------------------------------------------------------
(* AgentCoordinator: change coordinator *)

\* the files of the changes, and the extension the coordinator looks for
File ==
  [ a_js |-> <<"a",".","j","s">>,
    b_ts |-> <<"b",".","t","s">>,
    ext_js |-> <<".","j","s">> ]

ChangeTypes == {"create", "modify", "delete"}

\* A change object.  ref is the identity of the JavaScript object: the
\* code compares changes with === / !==, so two objects with the same file
\* and type are different changes, and one object may occur twice in a
\* batch.
ChangeObject(ref, file, type) == [ref |-> ref, file |-> file, type |-> type]

\* The batches of n changes a caller can build.  Each element is an object
\* already in the batch or a new object; objects are numbered in the order
\* of their first occurrence, so one object has one file and one type.
RECURSIVE BatchesOfLen(_)
BatchesOfLen(n) ==
  IF n = 0 THEN {<<>>}
  ELSE UNION {
         { Append(b, o) :
             o \in {b[i] : i \in 1..Len(b)}
                   \cup { ChangeObject(
                            Cardinality({b[i].ref : i \in 1..Len(b)}) + 1,
                            file, type) :
                          file \in {File.a_js, File.b_ts}, type \in ChangeTypes } } :
         b \in BatchesOfLen(n - 1) }

\* change === otherChange
SameObject(a, b) == a.ref = b.ref

RECURSIVE detectConflictsFrom(_, _, _)
detectConflictsFrom(change, allChanges, k) ==
  IF k > Len(allChanges) THEN <<>>
  ELSE LET otherChange == allChanges[k]
       IN (IF /\ ~SameObject(change, otherChange)
              /\ change.file = otherChange.file
              /\ change.type = "modify"
              /\ otherChange.type = "modify"
           THEN <<otherChange>>
           ELSE <<>>)
          \o detectConflictsFrom(change, allChanges, k + 1)

\* detectConflicts that does not look at the type of the change itself
RECURSIVE detectConflictsFrom_OtherTypeOnly(_, _, _)
detectConflictsFrom_OtherTypeOnly(change, allChanges, k) ==
  IF k > Len(allChanges) THEN <<>>
  ELSE LET otherChange == allChanges[k]
       IN (IF /\ ~SameObject(change, otherChange)
              /\ change.file = otherChange.file
              /\ otherChange.type = "modify"
           THEN <<otherChange>>
           ELSE <<>>)
          \o detectConflictsFrom_OtherTypeOnly(change, allChanges, k + 1)

detectConflicts_OtherTypeOnly(change, allChanges) ==
  detectConflictsFrom_OtherTypeOnly(change, allChanges, 1)

detectConflicts(change, allChanges) ==
  detectConflictsFrom(change, allChanges, 1)

\* the inner loop of calculateChangeDependencies for one change
RECURSIVE importEdgesFrom(_, _, _)
importEdgesFrom(change, changes, k) ==
  IF k > Len(changes) THEN <<>>
  ELSE LET otherChange == changes[k]
       IN (IF ~SameObject(otherChange, change) /\ otherChange.type = "modify"
           THEN << [from |-> change, to |-> otherChange, type |-> "import"] >>
           ELSE <<>>)
          \o importEdgesFrom(change, changes, k + 1)

RECURSIVE calculateChangeDependenciesFrom(_, _)
calculateChangeDependenciesFrom(changes, i) ==
  IF i > Len(changes) THEN <<>>
  ELSE (IF changes[i].type = "create" /\ endsWith(changes[i].file, File.ext_js)
        THEN importEdgesFrom(changes[i], changes, 1)
        ELSE <<>>)
       \o calculateChangeDependenciesFrom(changes, i + 1)

calculateChangeDependencies(changes) ==
  calculateChangeDependenciesFrom(changes, 1)

\* the first loop with a push to changes that is not in the else branch
RECURSIVE partitionChanges_AcceptsConflicting(_, _, _)
partitionChanges_AcceptsConflicting(changes, i, acc) ==
  IF i > Len(changes) THEN acc
  ELSE LET change == changes[i]
           conflicts == detectConflicts(change, changes)
           listed == IF Len(conflicts) > 0
                     THEN [acc EXCEPT !.conflicts =
                             Append(@, [change |-> change,
                                        conflicts |-> conflicts])]
                     ELSE acc
       IN partitionChanges_AcceptsConflicting(changes, i + 1,
            [listed EXCEPT !.changes = Append(@, change)])

\* the first loop of coordinateChanges: accepted changes and conflicts
RECURSIVE partitionChanges(_, _, _)
partitionChanges(changes, i, acc) ==
  IF i > Len(changes) THEN acc
  ELSE LET change == changes[i]
           conflicts == detectConflicts(change, changes)
       IN partitionChanges(changes, i + 1,
            IF Len(conflicts) > 0
            THEN [acc EXCEPT !.conflicts =
                    Append(@, [change |-> change, conflicts |-> conflicts])]
            ELSE [acc EXCEPT !.changes = Append(@, change)])

NoCoordination == [changes |-> <<>>, conflicts |-> <<>>, dependencies |-> <<>>]

\* coordinateChanges deriving the dependencies from the whole batch
coordinateChanges_DepsOverBatch(changes) ==
  LET c == partitionChanges(changes, 1, NoCoordination)
  IN [c EXCEPT !.dependencies = calculateChangeDependencies(changes)]

coordinateChanges(changes) ==
  LET c == partitionChanges(changes, 1, NoCoordination)
  IN [c EXCEPT !.dependencies = calculateChangeDependencies(c.changes)]

----------------------------------------------------------------------------
(* CodebaseAnalyzer: relevance scoring and search *)

\* Scores are exact multiples of 1/600: 600 stands for 1.0, so that the
\* weights 0.3, 0.4, 0.2, 0.1 and the fractions matches/terms of queries of
\* up to six terms are integers.
ScoreOne == 600
PathWeight == 180
KeyTermWeight == 240
PurposeWeight == 120
DependencyWeight == 60
RelevanceThreshold == 420

Min(a, b) == IF a < b THEN a ELSE b

\* String.prototype.split(' '): the terms between single spaces, empty
\* terms included
RECURSIVE splitFrom(_, _, _)
splitFrom(s, i, current) ==
  IF i > Len(s) THEN <<current>>
  ELSE IF s[i] = " " THEN <<current>> \o splitFrom(s, i + 1, <<>>)
  ELSE splitFrom(s, i + 1, Append(current, s[i]))

split(s) == splitFrom(s, 1, <<>>)

\* query.toLowerCase().split(' ')
queryTermsOf(q) == split(toLowerCase(q))

\* +0.3 when a query term occurs in the path
pathScore(queryTerms, analysis) ==
  IF \E i \in 1..Len(queryTerms) :
       includes(toLowerCase(analysis.path), queryTerms[i])
  THEN PathWeight ELSE 0

\* the key-term contribution without the division by the number of terms
keyTermScore_NotScaled(queryTerms, analysis) ==
  Cardinality({i \in 1..Len(queryTerms) :
    arrayIncludes(analysis.context.keyTerms, queryTerms[i])}) * KeyTermWeight

\* (termMatches / queryTerms.length) * 0.4
keyTermScore(queryTerms, analysis) ==
  (Cardinality({i \in 1..Len(queryTerms) :
     arrayIncludes(analysis.context.keyTerms, queryTerms[i])}) * KeyTermWeight)
  \div Len(queryTerms)

\* +0.2 when a query term occurs in the purpose
purposeScore(queryTerms, analysis) ==
  IF \E i \in 1..Len(queryTerms) :
       includes(analysis.context.purpose, queryTerms[i])
  THEN PurposeWeight ELSE 0

\* (depMatches / queryTerms.length) * 0.1
dependencyScore(queryTerms, analysis) ==
  (Cardinality({i \in 1..Len(queryTerms) :
     \E d \in 1..Len(analysis.dependencies) :
       includes(analysis.dependencies[d], queryTerms[i])}) * DependencyWeight)
  \div Len(queryTerms)

calculateRelevance(q, analysis) ==
  LET queryTerms == queryTermsOf(q)
      score ==   pathScore(queryTerms, analysis)
               + keyTermScore(queryTerms, analysis)
               + purposeScore(queryTerms, analysis)
               + dependencyScore(queryTerms, analysis)
  IN Min(score, ScoreOne)

\* Array.prototype.sort((a, b) => b.relevance - a.relevance): a stable
\* sort by descending relevance
RECURSIVE insertByRelevance(_, _)
insertByRelevance(sorted, x) ==
  IF Len(sorted) = 0 THEN <<x>>
  ELSE IF sorted[1].relevance >= x.relevance
  THEN <<sorted[1]>> \o insertByRelevance(Tail(sorted), x)
  ELSE <<x>> \o sorted

\* agenticSearch returning the matches in index order
sortByRelevance_Unsorted(a) == a

RECURSIVE sortByRelevance(_)
sortByRelevance(a) ==
  IF Len(a) = 0 THEN <<>>
  ELSE insertByRelevance(sortByRelevance(SubSeq(a, 1, Len(a) - 1)), a[Len(a)])

\* the loop of agenticSearch over the index, in insertion order
RECURSIVE collectRelevant(_, _, _)
collectRelevant(idxMap, q, i) ==
  IF i > Len(idxMap) THEN <<>>
  ELSE LET analysis == idxMap[i]
           relevance == calculateRelevance(q, analysis)
       IN (IF relevance > RelevanceThreshold
           THEN << [ file |-> analysis.path, relevance |-> relevance,
                     context |-> analysis.context,
                     dependencies |-> analysis.dependencies ] >>
           ELSE <<>>)
          \o collectRelevant(idxMap, q, i + 1)

agenticSearch(idxMap, q) == sortByRelevance(collectRelevant(idxMap, q, 1))

\* Map.prototype.set that moves a known path to the end of the index
indexSet_MoveToEnd(idxMap, analysis) ==
  LET others(r) == r.path # analysis.path
  IN Append(SelectSeq(idxMap, others), analysis)

\* Map.prototype.set(file, analysis) on the index: a known path keeps its
\* position and gets the new record, a new path is added at the end
indexSet(idxMap, analysis) ==
  IF \E i \in 1..Len(idxMap) : idxMap[i].path = analysis.path
  THEN [i \in 1..Len(idxMap) |->
          IF idxMap[i].path = analysis.path THEN analysis ELSE idxMap[i]]
  ELSE Append(idxMap, analysis)

\* indexFiles: every enumerated file is analysed and stored
RECURSIVE indexFiles(_, _)
indexFiles(idxMap, analyses) ==
  IF Len(analyses) = 0 THEN idxMap
  ELSE indexFiles(indexSet(idxMap, analyses[1]), Tail(analyses))

(* Files of the project, as analyzeFile records them *)

Term ==
  [ test |-> <<"t","e","s","t">>,
    auth |-> <<"a","u","t","h">>,
    api |-> <<"a","p","i">>,
    Test |-> <<"T","e","s","t">> ]

Path ==
  [ test_js |-> <<"t","e","s","t",".","j","s">>,
    auth_js |-> <<"a","u","t","h",".","j","s">>,
    api_test_js |-> <<"a","p","i",".","t","e","s","t",".","j","s">> ]

Purpose ==
  [ testing |-> <<"t","e","s","t","i","n","g">>,
    api |-> <<"a","p","i">>,
    general |-> <<"g","e","n","e","r","a","l">> ]

Analysis(path, keyTerms, purpose, dependencies) ==
  [ path |-> path,
    context |-> [keyTerms |-> keyTerms, purpose |-> purpose],
    dependencies |-> dependencies ]

\* what one enumeration of the project can yield: each path once; test.js
\* appears with two contents: it may change between two builds
Listings ==
  LET Analyses ==
      { Analysis(Path.test_js, <<Term.test, Term.auth>>, Purpose.testing,
                 << <<".","/","a","u","t","h">> >>),
        Analysis(Path.test_js, <<Term.auth>>, Purpose.general, <<>>),
        Analysis(Path.auth_js, <<Term.auth>>, Purpose.api, <<>>),
        Analysis(Path.api_test_js, <<Term.test, Term.auth>>, Purpose.testing,
                 <<Term.auth, Term.test>>) }
  IN { l \in SeqsOf(Analyses, 0, MaxFiles) :
         \A i, j \in 1..Len(l) : l[i].path = l[j].path => i = j }

Queries ==
  LET QueryWords == {Term.test, Term.auth, Term.api, Term.Test}
  IN {Join(ws) : ws \in SeqsOf(QueryWords, 0, MaxQueryTerms)}

----------------------------------------------------------------------------
(* CodebaseAnalyzer: analysis of one file.  Contents are sequences of      *)
(* characters; the regular expressions of the code are computed as the     *)
(* engine scans them, from left to right, each match starting after the    *)
(* end of the one before.                                                  *)

\* the character classes of the regular expressions: \s, the characters
\* that . does not match, \w and ['"]
CharClass ==
  [ space |-> {" ", "\t", "\n", "\r"},
    lineTerminator |-> {"\n", "\r"},
    word |-> {Letters.upper[i] : i \in 1..26} \cup {Letters.lower[i] : i \in 1..26}
               \cup {"0","1","2","3","4","5","6","7","8","9","_"},
    quote |-> {"'", "\""} ]

\* the literals of the regular expressions
Keyword ==
  [ function |-> <<"f","u","n","c","t","i","o","n">>, class |-> <<"c","l","a","s","s">>, const |-> <<"c","o","n","s","t">>,
    import |-> <<"i","m","p","o","r","t">>, require |-> <<"r","e","q","u","i","r","e">>, from |-> <<"f","r","o","m">>,
    async |-> <<"a","s","y","n","c">>, Promise |-> <<"P","r","o","m","i","s","e">>, await |-> <<"a","w","a","i","t">> ]

\* the literal t matches in s at position i
matchesAt(s, i, t) ==
  /\ i + Len(t) - 1 <= Len(s)
  /\ SubSeq(s, i, i + Len(t) - 1) = t

\* the first position from i on whose character is outside S, when inside
\* is set, or in S, when it is not (Len(s) + 1 when there is none): the end
\* of a greedy S* or [^S]* at i
RECURSIVE scan(_, _, _, _)
scan(s, i, S, inside) ==
  IF i > Len(s) \/ (s[i] \in S) # inside THEN i ELSE scan(s, i + 1, S, inside)

\* const.*= with a . that matches line terminators too
constAssignEnd_AcrossLines(s, i) ==
  IF ~matchesAt(s, i, Keyword.const) THEN 0
  ELSE LET assigns == {j \in (i + Len(Keyword.const))..Len(s) : s[j] = "="}
       IN IF assigns = {} THEN 0
          ELSE CHOOSE j \in assigns : \A k \in assigns : k <= j

\* const.*= at position i of s: the position of the = that ends the match,
\* 0 when there is no match.  .* is greedy and stays on the line, so the
\* match ends at the last = of the line.
constAssignEnd(s, i) ==
  IF ~matchesAt(s, i, Keyword.const) THEN 0
  ELSE LET from == i + Len(Keyword.const)
           lineEnd == scan(s, from, CharClass.lineTerminator, FALSE)
           assigns == {j \in from..(lineEnd - 1) : s[j] = "="}
       IN IF assigns = {} THEN 0
          ELSE CHOOSE j \in assigns : \A k \in assigns : k <= j

\* (content.match(/function|class|const.*=/g) || []).length, from i on
RECURSIVE countDeclarations(_, _)
countDeclarations(s, i) ==
  IF i > Len(s) THEN 0
  ELSE IF matchesAt(s, i, Keyword.function)
       THEN 1 + countDeclarations(s, i + Len(Keyword.function))
  ELSE IF matchesAt(s, i, Keyword.class)
       THEN 1 + countDeclarations(s, i + Len(Keyword.class))
  ELSE IF constAssignEnd(s, i) > 0
       THEN 1 + countDeclarations(s, constAssignEnd(s, i) + 1)
  ELSE countDeclarations(s, i + 1)

\* Math.round(Math.log(n) * 100) for n = 1, 2, ...: the logarithm in
\* hundredths
RoundedLog ==
  <<0, 69, 110, 139, 161, 179, 195, 208, 220, 230,
    240, 248, 256, 264, 271, 277, 283, 289, 294, 300,
    304, 309, 314, 318, 322, 326, 330, 333, 337, 340,
    343, 347, 350, 353, 356, 358, 361, 364, 366, 369>>

\* calculateComplexity, in hundredths
calculateComplexity(content) ==
  LET lines == 1 + Cardinality({i \in 1..Len(content) : content[i] = "\n"})
      functions == countDeclarations(content, 1)
  IN RoundedLog[lines + functions + 1]

NoMatch == [end |-> 0, capture |-> <<>>]

\* ['"]([^'"]+)['"] at position i of s: the captured name and the position
\* of the closing quote
quotedAt(s, i) ==
  IF i > Len(s) \/ s[i] \notin CharClass.quote THEN NoMatch
  ELSE LET close == scan(s, i + 1, CharClass.quote, FALSE)
       IN IF close > Len(s) \/ close = i + 1 THEN NoMatch
          ELSE [end |-> close, capture |-> SubSeq(s, i + 1, close - 1)]

\* (?:import|require|from)\s+['"]([^'"]+)['"] at position i of s
importAt(s, i) ==
  LET keywords == {k \in {Keyword.import, Keyword.require, Keyword.from} : matchesAt(s, i, k)}
  IN IF keywords = {} THEN NoMatch
     ELSE LET afterKeyword == i + Len(CHOOSE k \in keywords : TRUE)
              afterSpace == scan(s, afterKeyword, CharClass.space, TRUE)
          IN IF afterSpace = afterKeyword THEN NoMatch
             ELSE quotedAt(s, afterSpace)

\* require\s*\(\s*['"]([^'"]+)['"]\s*\) at position i of s
requireCallAt(s, i) ==
  IF ~matchesAt(s, i, Keyword.require) THEN NoMatch
  ELSE LET paren == scan(s, i + Len(Keyword.require), CharClass.space, TRUE)
       IN IF paren > Len(s) \/ s[paren] # "(" THEN NoMatch
          ELSE LET quoted == quotedAt(s, scan(s, paren + 1, CharClass.space, TRUE))
                   close == scan(s, quoted.end + 1, CharClass.space, TRUE)
               IN IF quoted.end = 0 \/ close > Len(s) \/ s[close] # ")"
                  THEN NoMatch
                  ELSE [end |-> close, capture |-> quoted.capture]

\* the loop while ((match = regex.exec(content)) !== null) from position i
\* on: the captures of the matches of one of the two expressions, in order
RECURSIVE execAll(_, _, _)
execAll(s, i, callForm) ==
  IF i > Len(s) THEN <<>>
  ELSE LET match == IF callForm THEN requireCallAt(s, i) ELSE importAt(s, i)
       IN IF match.end > 0
          THEN <<match.capture>> \o execAll(s, match.end + 1, callForm)
          ELSE execAll(s, i + 1, callForm)

\* extractDependencies with the require() calls pushed first
extractDependencies_CallsFirst(content) ==
  execAll(content, 1, TRUE) \o execAll(content, 1, FALSE)

\* extractDependencies: the matches of the import expression, then the
\* matches of the require() expression
extractDependencies(content) ==
  execAll(content, 1, FALSE) \o execAll(content, 1, TRUE)

\* the number of matches from i on of the keyword kw followed by \s+ when
\* space is set and then by \w+ when word is set
RECURSIVE countKeyword(_, _, _, _, _)
countKeyword(s, i, kw, space, word) ==
  IF i > Len(s) THEN 0
  ELSE LET afterKeyword == i + Len(kw)
           afterSpace == IF space THEN scan(s, afterKeyword, CharClass.space, TRUE)
                         ELSE afterKeyword
           afterWord == IF word THEN scan(s, afterSpace, CharClass.word, TRUE)
                        ELSE afterSpace
           matched == /\ matchesAt(s, i, kw)
                      /\ space => afterSpace > afterKeyword
                      /\ word => afterWord > afterSpace
       IN IF matched THEN 1 + countKeyword(s, afterWord, kw, space, word)
          ELSE countKeyword(s, i + 1, kw, space, word)

\* the argument of a call made without arguments
Undefined == <<"undefined">>

\* extractPatterns(content), the method of that name the class defines
\* last: content.match throws a TypeError when content is undefined
extractPatterns(content) ==
  IF content = Undefined THEN [error |-> "TypeError"]
  ELSE [ error |-> Null,
         functions |-> countKeyword(content, 1, Keyword.function, TRUE, TRUE),
         classes |-> countKeyword(content, 1, Keyword.class, TRUE, TRUE),
         async |-> countKeyword(content, 1, Keyword.async, TRUE, FALSE),
         promises |-> countKeyword(content, 1, Keyword.Promise, FALSE, FALSE)
                        + countKeyword(content, 1, Keyword.await, FALSE, FALSE) ]

\* content.toLowerCase().match(/\b\w{4,}\b/g) from i on: the runs of word
\* characters of four characters or more
RECURSIVE wordsFrom(_, _)
wordsFrom(s, i) ==
  IF i > Len(s) THEN <<>>
  ELSE IF s[i] \notin CharClass.word THEN wordsFrom(s, i + 1)
  ELSE LET end == scan(s, i, CharClass.word, TRUE)
       IN (IF end - i >= 4 THEN <<SubSeq(s, i, end - 1)>> ELSE <<>>)
            \o wordsFrom(s, end)

\* extractKeyTerms: the words by falling frequency, words of the same
\* frequency in the order of their first occurrence, ten at most
extractKeyTerms(content) ==
  LET words == wordsFrom(toLowerCase(content), 1)
      first == {i \in 1..Len(words) : \A j \in 1..(i - 1) : words[j] # words[i]}
      frequency(i) == Cardinality({j \in 1..Len(words) : words[j] = words[i]})
      \* the number of entries sorted before the entry of words[i]
      rank(i) == Cardinality({j \in first :
                    \/ frequency(j) > frequency(i)
                    \/ frequency(j) = frequency(i) /\ j < i})
      sorted == [r \in 1..Cardinality(first) |->
                   words[CHOOSE i \in first : rank(i) = r - 1]]
  IN SubSeq(sorted, 1, Min(10, Len(sorted)))

\* inferPurpose
inferPurpose(content) ==
  IF includes(content, Kw.test) \/ includes(content, Kw.spec)
    THEN Purpose.testing
  ELSE IF includes(content, <<"c","o","n","f","i","g">>) THEN <<"c","o","n","f","i","g","u","r","a","t","i","o","n">>
  ELSE IF includes(content, Term.api) \/ includes(content, <<"e","n","d","p","o","i","n","t">>)
    THEN Purpose.api
  ELSE IF includes(content, <<"c","o","m","p","o","n","e","n","t">>) \/ includes(content, <<"r","e","n","d","e","r">>)
    THEN <<"u","i">>
  ELSE Purpose.general

\* generateContext
generateContext(content) ==
  [ summary |-> SubSeq(content, 1, Min(200, Len(content))) \o <<".",".",".">>,
    keyTerms |-> extractKeyTerms(content),
    purpose |-> inferPurpose(content) ]

\* getFileType.  path.extname is the path from the last . of its last
\* segment on, empty when there is none or when the segment starts with it.
getFileType(filePath) ==
  LET slashes == {i \in 1..Len(filePath) : filePath[i] = "/"}
      base == 1 + (IF slashes = {} THEN 0
                   ELSE CHOOSE i \in slashes : \A j \in slashes : j <= i)
      dots == {i \in (base + 1)..Len(filePath) : filePath[i] = "."}
      ext == IF dots = {} THEN <<>>
             ELSE SubSeq(filePath, CHOOSE i \in dots : \A j \in dots : j <= i,
                         Len(filePath))
  IN CASE ext = File.ext_js -> "javascript"
       [] ext = <<".","t","s">> -> "typescript"
       [] ext = <<".","p","y">> -> "python"
       [] ext = <<".","j","a","v","a">> -> "java"
       [] ext = <<".","g","o">> -> "go"
       [] ext = <<".","r","s">> -> "rust"
       [] ext = <<".","m","d">> -> "markdown"
       [] ext = <<".","j","s","o","n">> -> "json"
       [] ext = <<".","y","a","m","l">> -> "yaml"
       [] ext = <<".","y","m","l">> -> "yaml"
       [] OTHER -> "unknown"

\* analyzeFile(filePath, content) at the date now
analyzeFile(filePath, content, now) ==
  [ path |-> filePath,
    type |-> getFileType(filePath),
    size |-> Len(content),
    complexity |-> calculateComplexity(content),
    dependencies |-> extractDependencies(content),
    patterns |-> extractPatterns(content),
    context |-> generateContext(content),
    lastModified |-> now ]

----------------------------------------------------------------------------
(* CodebaseAnalyzer: the passes of analyze() that follow indexFiles *)

\* record r with the field name set to value
withField(r, name, value) ==
  [f \in DOMAIN r \cup {name} |-> IF f = name THEN value ELSE r[f]]

\* the keys of the index that include or end with one of the dependencies,
\* dependency by dependency
RECURSIVE relatedFiles(_, _)
relatedFiles(idxMap, dependencies) ==
  IF Len(dependencies) = 0 THEN <<>>
  ELSE LET related(analysis) ==
             \/ includes(analysis.path, dependencies[1])
             \/ endsWith(analysis.path, dependencies[1])
           keys == SelectSeq(idxMap, related)
       IN [k \in 1..Len(keys) |-> keys[k].path]
            \o relatedFiles(idxMap, Tail(dependencies))

\* analyzeDependencies
analyzeDependencies(idxMap) ==
  [k \in 1..Len(idxMap) |->
     withField(idxMap[k], "dependencyGraph",
               relatedFiles(idxMap, idxMap[k].dependencies))]

\* buildKnowledgeGraph: the related files are added to the relationships of
\* a record when there are any
buildKnowledgeGraph(idxMap) ==
  [k \in 1..Len(idxMap) |->
     LET related == relatedFiles(idxMap, idxMap[k].dependencies)
         relationships == IF "relationships" \in DOMAIN idxMap[k]
                          THEN idxMap[k].relationships ELSE <<>>
     IN IF Len(related) = 0 THEN idxMap[k]
        ELSE withField(idxMap[k], "relationships", relationships \o related)]

\* analyze() after indexFiles: analyzeDependencies, then extractPatterns
\* called without an argument, then buildKnowledgeGraph unless that call
\* threw
analyzeAfterIndexFiles(idxMap) ==
  LET analysed == analyzeDependencies(idxMap)
  IN IF extractPatterns(Undefined).error # Null
     THEN [index |-> analysed, outcome |-> "rejected"]
     ELSE [index |-> buildKnowledgeGraph(analysed), outcome |-> "resolved"]

----------------------------------------------------------------------------
(* CodebaseAnalyzer: the report *)

\* the sum over the index of analysis.size, analysis.complexity or
\* analysis.dependencies.length
RECURSIVE total(_, _)
total(idxMap, metric) ==
  IF Len(idxMap) = 0 THEN 0
  ELSE (CASE metric = "size" -> idxMap[1].size
          [] metric = "complexity" -> idxMap[1].complexity
          [] metric = "dependencies" -> Len(idxMap[1].dependencies))
       + total(Tail(idxMap), metric)

NoTestsMessage == "No test files found. Consider adding comprehensive tests."

\* generateRecommendations.  averageComplexity is the quotient of the two
\* numbers of report.summary.averageComplexity, a sum of hundredths and a
\* number of files.
generateRecommendations(report) ==
  LET average == report.summary.averageComplexity
      mostDependent == report.patterns.mostDependentFiles
      fileTypes == report.summary.fileTypes
  IN (IF average.sum > 500 * average.files
      THEN << [ type |-> "complexity", priority |-> "high", message |->
        "High average complexity detected. Consider refactoring complex files." ] >>
      ELSE <<>>)
     \o
     (IF Len(mostDependent) > 0 /\ mostDependent[1].dependencies > 10
      THEN << [ type |-> "dependencies", priority |-> "medium", message |->
        "Some files have high dependency counts. Consider breaking them down." ] >>
      ELSE <<>>)
     \o
     (IF \/ ~\E k \in 1..Len(fileTypes) : fileTypes[k].type = "test"
         \/ \E k \in 1..Len(fileTypes) :
              fileTypes[k].type = "test" /\ fileTypes[k].count = 0
      THEN << [ type |-> "testing", priority |-> "high",
                message |-> NoTestsMessage ] >>
      ELSE <<>>)

\* Number.prototype.toFixed(2) of sum / files, sum in hundredths: the
\* digits of the nearest hundredth
toFixed2(sum, files) ==
  LET hundredths == (2 * sum + files) \div (2 * files)
  IN << ToString(hundredths \div 100), ".",
        ToString((hundredths % 100) \div 10), ToString(hundredths % 10) >>

\* formatReport: the text, line by line
formatReport(report) ==
  LET toUpperCase(priority) ==
        CASE priority = "high" -> "HIGH"
          [] priority = "medium" -> "MEDIUM"
          [] priority = "low" -> "LOW"
  IN
  << <<"# Codebase Analysis Report">>, <<"">>,
     <<"## Summary">>,
     <<"- Total Files: ", ToString(report.summary.totalFiles)>>,
     <<"- Total Lines: ", ToString(report.summary.totalLines)>>,
     <<"- Average Complexity: ">>
       \o toFixed2(report.summary.averageComplexity.sum,
                   report.summary.averageComplexity.files),
     <<"- Total Dependencies: ",
       ToString(report.summary.totalDependencies)>>, <<"">>,
     <<"## File Types">> >>
  \o [k \in 1..Len(report.summary.fileTypes) |->
        <<"- ", report.summary.fileTypes[k].type, ": ",
          ToString(report.summary.fileTypes[k].count), " files">>]
  \o << <<"">>, <<"## Recommendations">> >>
  \o [k \in 1..Len(report.recommendations) |->
        <<"- **", toUpperCase(report.recommendations[k].priority), "**: ",
          report.recommendations[k].message>>]

\* generateReport.  fileTypes holds the number of files of each type, the
\* types in the order in which the index first holds them; the files of
\* patterns are sorted by Array.prototype.sort, which is stable.
generateReport(idxMap) ==
  LET files == 1..Len(idxMap)
      first == {i \in files : \A j \in 1..(i - 1) : idxMap[j].type # idxMap[i].type}
      entry(r) == CHOOSE i \in first : Cardinality({j \in first : j < i}) = r - 1
      fileTypes ==
        [r \in 1..Cardinality(first) |->
           [ type |-> idxMap[entry(r)].type,
             count |-> Cardinality({j \in files :
                                      idxMap[j].type = idxMap[entry(r)].type}) ]]
      value(metric, i) == IF metric = "complexity" THEN idxMap[i].complexity
                          ELSE Len(idxMap[i].dependencies)
      at(metric, r) ==
        CHOOSE i \in files :
          Cardinality({j \in files :
            \/ value(metric, j) > value(metric, i)
            \/ value(metric, j) = value(metric, i) /\ j < i}) = r - 1
      topFive(metric) ==
        [r \in 1..Min(5, Len(idxMap)) |->
           [file |-> idxMap[at(metric, r)].path]
             @@ (metric :> value(metric, at(metric, r)))]
      report ==
        [ summary |->
            [ totalFiles |-> Len(idxMap),
              fileTypes |-> fileTypes,
              totalLines |-> total(idxMap, "size"),
              averageComplexity |->
                IF Len(idxMap) > 0
                THEN [sum |-> total(idxMap, "complexity"), files |-> Len(idxMap)]
                ELSE [sum |-> 0, files |-> 1],
              totalDependencies |-> total(idxMap, "dependencies") ],
          fileAnalysis |->
            [k \in files |->
               [ file |-> idxMap[k].path,
                 type |-> idxMap[k].type,
                 complexity |-> idxMap[k].complexity,
                 dependencies |-> Len(idxMap[k].dependencies),
                 purpose |-> idxMap[k].context.purpose,
                 keyTerms |-> idxMap[k].context.keyTerms ]],
          patterns |->
            [ mostComplexFiles |-> topFive("complexity"),
              mostDependentFiles |-> topFive("dependencies") ],
          recommendations |-> <<>> ]
  IN formatReport(
       [report EXCEPT !.recommendations = generateRecommendations(report)])

----------------------------------------------------------------------------
(* AgenticEngine: agents and workflows *)

AgentTypes ==
  << "codebase-analyzer", "multi-file-editor", "test-coordinator",
     "git-workflow", "dependency-manager", "security-auditor",
     "performance-optimizer", "documentation-generator" >>

WorkflowTypes ==
  <<"deployment", "testing", "code-review", "refactoring", "documentation">>

\* Map.prototype.set for every type, on the keys of the map: a key the map
\* holds keeps its position, a new key is added at the end
RECURSIVE setAll(_, _)
setAll(keys, types) ==
  IF Len(types) = 0 THEN keys
  ELSE setAll(IF arrayIncludes(keys, types[1]) THEN keys
              ELSE Append(keys, types[1]),
              Tail(types))

----------------------------------------------------------------------------
(* Contents and files of the project *)

\* statements of a file
Fragment ==
  [ requireA |-> <<"c","o","n","s","t"," ","x"," ","="," ","r","e","q","u","i","r","e","(","'","a","'",")",";">>,
    importB |-> <<"i","m","p","o","r","t"," ","y"," ","f","r","o","m"," ","'","b","'",";">>,
    constFn |-> <<"c","o","n","s","t"," ","f"," ","="," ","f","u","n","c","t","i","o","n"," ","(",")"," ","{","}">>,
    class |-> <<"c","l","a","s","s"," ","A"," ","{","}">>,
    test |-> <<"t","e","s","t","(","y",")",";">> ]

\* the contents handed to the analysis: statements on one line
Contents ==
  {Join(fs) : fs \in SeqsOf({Fragment[k] : k \in DOMAIN Fragment},
                             0, MaxFragments)}

\* what getAllFiles can return: each path once, in any order; b.ts appears
\* with two contents: it may change between two builds
ProjectListings ==
  LET ProjectFiles ==
      { [path |-> Path.test_js, content |-> Join(<<Fragment.importB, Fragment.test>>)],
        [path |-> File.b_ts, content |-> Fragment.constFn],
        [path |-> File.b_ts, content |-> Join(<<Fragment.requireA, Fragment.class>>)] }
  IN { l \in SeqsOf(ProjectFiles, 0, MaxFiles) :
         \A i, j \in 1..Len(l) : l[i].path = l[j].path => i = j }

----------------------------------------------------------------------------
(* EnhancedChatSession: the messages of a chat *)

\* message.toLowerCase().split(' '), a keyword among the words, and more
\* than three words
isComplexTask(message) ==
  LET complexKeywords ==
      {
          <<"c","r","e","a","t","e">>,
          <<"b","u","i","l","d">>,
          <<"i","m","p","l","e","m","e","n","t">>,
          <<"r","e","f","a","c","t","o","r">>,
          <<"m","i","g","r","a","t","e">>,
          <<"a","n","a","l","y","z","e">>,
          <<"o","p","t","i","m","i","z","e">>,
          <<"d","e","b","u","g">>,
          <<"f","i","x">>,
          <<"u","p","d","a","t","e">>,
          <<"d","e","p","l","o","y">>,
          <<"t","e","s","t">>,
          <<"d","o","c","u","m","e","n","t">>,
          <<"r","e","v","i","e","w">> }
      words == split(toLowerCase(message))
  IN /\ \E keyword \in complexKeywords : arrayIncludes(words, keyword)
     /\ Len(words) > 3

\* the messages the tests expect not to be complex tasks
SimpleTasks ==
  {
    <<"W","h","a","t"," ","i","s"," ","a","u","t","h","e","n","t","i","c",
      "a","t","i","o","n","?">>,
    <<"H","o","w"," ","d","o"," ","I"," ","u","s","e"," ","t","h","i","s",
      "?">>,
    <<"C","a","n"," ","y","o","u"," ","h","e","l","p"," ","m","e","?">>,
    <<"W","h","a","t"," ","d","o","e","s"," ","t","h","i","s"," ","c","o",
      "d","e"," ","d","o","?">> }

\* the messages the tests expect to be complex tasks, those they expect
\* not to be, and "Test message", a keyword in a short message, a keyword
\* after the first word
Messages ==
  {
    <<"C","r","e","a","t","e"," ","a"," ","n","e","w"," ","a","u","t","h",
      "e","n","t","i","c","a","t","i","o","n"," ","m","o","d","u","l","e">>,
    <<"R","e","f","a","c","t","o","r"," ","t","h","e"," ","u","s","e","r",
      " ","s","e","r","v","i","c","e"," ","t","o"," ","u","s","e"," ","J",
      "W","T"," ","t","o","k","e","n","s">>,
    <<"I","m","p","l","e","m","e","n","t"," ","a"," ","n","e","w"," ","A",
      "P","I"," ","e","n","d","p","o","i","n","t"," ","w","i","t","h"," ",
      "t","e","s","t","s">>,
    <<"M","i","g","r","a","t","e"," ","f","r","o","m"," ","E","x","p","r",
      "e","s","s"," ","t","o"," ","F","a","s","t","i","f","y">>,
    <<"A","d","d"," ","c","o","m","p","r","e","h","e","n","s","i","v","e",
      " ","e","r","r","o","r"," ","h","a","n","d","l","i","n","g"," ","t",
      "o"," ","a","l","l"," ","r","o","u","t","e","s">> } \cup SimpleTasks \cup
  {
    <<"T","e","s","t"," ","m","e","s","s","a","g","e">>,
    <<"F","i","x"," ","i","t">>,
    <<"P","l","e","a","s","e"," ","u","p","d","a","t","e"," ","t","h","e",
      " ","u","s","e","r"," ","t","e","s","t","s">> }

\* the entry pushed to conversationHistory
historyEntry(message, date) ==
  [ user |-> message,
    assistant |-> IF isComplexTask(message) THEN "Agentic" ELSE "Direct",
    timestamp |-> date ]

\* processAgenticMessage with the push after the try statement
processed_PushAfterCatch(history, message, date, thrown) ==
  Append(history, historyEntry(message, date))

\* the end of processAgenticMessage: the push is the last statement of the
\* try block, and the catch block only reports
processed(history, message, date, thrown) ==
  IF thrown THEN history
  ELSE Append(history, historyEntry(message, date))

----------------------------------------------------------------------------
(* AgentsManager: the loaded agents and their files *)

AgentNames == {"debugger", "code-reviewer", "test-runner", "non-existent"}

\* JavaScript null where the other values are objects
NullObject == [null |-> TRUE]

\* the agent loadAgent builds from the file of that name
loadAgent(name) == [name |-> name, filePath |-> name \o ".md"]

\* loadAgents: agents.set(agent.name, agent) for every file found
loadAgents(loaded, files) ==
  {a \in loaded : \A name \in AgentNames :
                    loadAgent(name).filePath \in files => a.name # name}
    \cup {loadAgent(name) : name \in {n \in AgentNames :
                                        loadAgent(n).filePath \in files}}

\* this.agents.get(agentName) || null
getAgent(loaded, agentName) ==
  IF \E a \in loaded : a.name = agentName
  THEN CHOOSE a \in loaded : a.name = agentName
  ELSE NullObject

\* deleteAgent that takes the file of an unknown name for already gone
deleteAgent_UnknownIgnored(loaded, files, agentName) ==
  LET agent == getAgent(loaded, agentName)
  IN IF agent = NullObject
     THEN [ agents |-> loaded, files |-> files, unlinked |-> {},
            error |-> Null ]
     ELSE IF agent.filePath \notin files
     THEN [ agents |-> loaded, files |-> files,
            unlinked |-> {agent.filePath}, error |-> "ENOENT" ]
     ELSE [ agents |-> loaded \ {agent}, files |-> files \ {agent.filePath},
            unlinked |-> {agent.filePath}, error |-> Null ]

\* deleteAgent: the agents and the files it leaves, the paths handed to
\* fs.unlink and the message of the error it rejects with
deleteAgent(loaded, files, agentName) ==
  LET agent == getAgent(loaded, agentName)
  IN IF agent = NullObject
     THEN [ agents |-> loaded, files |-> files, unlinked |-> {},
            error |-> "Agent '" \o agentName \o "' not found" ]
     ELSE IF agent.filePath \notin files
     THEN [ agents |-> loaded, files |-> files,
            unlinked |-> {agent.filePath}, error |-> "ENOENT" ]
     ELSE [ agents |-> loaded \ {agent}, files |-> files \ {agent.filePath},
            unlinked |-> {agent.filePath}, error |-> Null ]

\* what is known of the last call to the manager
ManagerCall(operation, name, before, result, unlinked, error) ==
  [ op |-> operation, name |-> name, before |-> before, result |-> result,
    unlinked |-> unlinked, error |-> error ]

----------------------------------------------------------------------------
(* AgentCoordinator: executePlan calls in flight together *)

\* two executePlan calls on one coordinator
Runs == {1, 2}

\* the plan a caller hands to call r: up to MaxSteps editor steps, critical
\* or not, with ids of their own
RunPlans(r) ==
  LET planId == "plan" \o ToString(r)
      stepsOf(criticals) ==
        [ k \in 1..Len(criticals) |->
            Step(planId \o "-step" \o ToString(k), "Create file",
                 "multi-file-editor", criticals[k], 30) ]
  IN { [ id |-> planId, task |-> <<"T","e","s","t">>,
         steps |-> stepsOf(criticals), dependencies |-> <<>>,
         estimatedTime |-> 30 * Len(criticals), risk |-> "low" ] :
         criticals \in SeqsOf(BOOLEAN, 0, MaxSteps) }

\* executePlan(plan) up to its first await: the results object is created
\* and executeStep is called for the first step, or the empty loop ends
beginRun(plan) ==
  IF Len(plan.steps) = 0
  THEN [ pc |-> "returned", plan |-> plan, idx |-> 0,
         results |-> executePlanComplete(InitialResults), started |-> <<>> ]
  ELSE [ pc |-> "running", plan |-> plan, idx |-> 1,
         results |-> InitialResults, started |-> <<plan.steps[1].id>> ]

\* one results object for the coordinator, which every call in flight
\* writes and returns
stepSettles_SharedResults(rs, r, fault) ==
  LET run == rs[r]
      step == run.plan.steps[run.idx]
      shared == rs[CHOOSE q \in Runs :
                     /\ rs[q].pc = "running"
                     /\ \A p \in Runs : rs[p].pc = "running" => p <= q].results
      out == executePlanStep(shared, step, executeStep(step, fault))
      written == [ q \in Runs |->
                     IF rs[q].pc = "running"
                     THEN [rs[q] EXCEPT !.results = out.results]
                     ELSE rs[q] ]
  IN [ written EXCEPT ![r] =
         IF out.thrown # Null
         THEN [@ EXCEPT !.results = executePlanCatch(@, out.thrown),
                        !.pc = "returned"]
         ELSE IF run.idx = Len(run.plan.steps)
         THEN [@ EXCEPT !.results = executePlanComplete(@),
                        !.pc = "returned"]
         ELSE [@ EXCEPT !.idx = @ + 1,
                        !.started = Append(@, run.plan.steps[run.idx + 1].id)] ]

\* The timer of the step of call r fires: executeStep returns its result,
\* the body of the loop records it in the results object of that call, and
\* the loop calls executeStep for the next step, ends, or is left through
\* the catch block.
stepSettles(rs, r, fault) ==
  LET run == rs[r]
      step == run.plan.steps[run.idx]
      out == executePlanStep(run.results, step, executeStep(step, fault))
  IN [ rs EXCEPT ![r] =
         IF out.thrown # Null
         THEN [@ EXCEPT !.results = executePlanCatch(out.results, out.thrown),
                        !.pc = "returned"]
         ELSE IF run.idx = Len(run.plan.steps)
         THEN [@ EXCEPT !.results = executePlanComplete(out.results),
                        !.pc = "returned"]
         ELSE [@ EXCEPT !.results = out.results,
                        !.idx = @ + 1,
                        !.started = Append(@, run.plan.steps[run.idx + 1].id)] ]

----------------------------------------------------------------------------
(* WorkflowBuilder *)

\* the descriptions of the tests, one that names two requirements in lower
\* case, and one that names none
Descriptions ==
  {
    <<"D","e","p","l","o","y"," ","t","o"," ","p","r","o","d","u","c","t",
      "i","o","n"," ","w","i","t","h"," ","a","u","t","o","m","a","t","e",
      "d"," ","t","e","s","t","i","n","g">>,
    <<"D","e","p","l","o","y"," ","w","i","t","h"," ","t","e","s","t","s">>,
    <<"d","e","p","l","o","y"," ","a","f","t","e","r"," ","b","u","i","l",
      "d">>,
    <<"r","e","l","e","a","s","e">> }

\* new WorkflowBuilder(description)
newBuilder(description) ==
  [ description |-> description, requirements |-> NullObject,
    steps |-> <<>>, validated |-> FALSE ]

\* WorkflowBuilder.analyzeRequirements: String.prototype.includes on the
\* description as given
builderAnalyzeRequirements(b) ==
  [ b EXCEPT !.requirements =
      [ steps |->
             (IF includes(b.description, <<"d","e","p","l","o","y">>)
              THEN <<"deployment">> ELSE <<>>)
          \o (IF includes(b.description, <<"t","e","s","t">>)
              THEN <<"testing">> ELSE <<>>)
          \o (IF includes(b.description, <<"b","u","i","l","d">>)
              THEN <<"build">> ELSE <<>>),
        triggers |-> <<>> ] ]

\* WorkflowBuilder.generateSteps: one step of createStep for each
\* requirement, pushed to the steps there are; reading the steps of null
\* requirements throws
builderGenerateSteps(b) ==
  LET createStep(requirement) ==
        CASE requirement = "deployment" ->
               [ name |-> "Deploy Application", type |-> "deploy",
                 conditions |-> <<"tests_pass", "build_success">> ]
          [] requirement = "testing" ->
               [ name |-> "Run Tests", type |-> "test",
                 conditions |-> <<"code_changes">> ]
          [] requirement = "build" ->
               [ name |-> "Build Application", type |-> "build",
                 conditions |-> <<"dependencies_installed">> ]
          [] OTHER ->
               [ name |-> "Execute " \o requirement, type |-> "custom",
                 conditions |-> <<>> ]
  IN IF b.requirements = NullObject
     THEN [ builder |-> b, error |-> "TypeError" ]
     ELSE [ builder |->
              [ b EXCEPT !.steps =
                  @ \o [ k \in 1..Len(b.requirements.steps) |->
                           createStep(b.requirements.steps[k]) ] ],
            error |-> Null ]

\* WorkflowBuilder.validatePlan: checkCircularDependencies answers false;
\* a step with a condition outside the list makes it throw
validatePlan(b) ==
  LET validateStepConditions(step) ==
        \A c \in 1..Len(step.conditions) :
          step.conditions[c] \in { "tests_pass", "build_success",
                                   "code_changes", "dependencies_installed" }
      invalid == {k \in 1..Len(b.steps) : ~validateStepConditions(b.steps[k])}
  IN IF invalid # {}
     THEN [ builder |-> b,
            error |-> "Invalid conditions for step: "
                        \o b.steps[CHOOSE k \in invalid :
                                     \A l \in invalid : k <= l].name ]
     ELSE [ builder |-> [b EXCEPT !.validated = TRUE], error |-> Null ]

\* getWorkflow that does not look at the flag
getWorkflow_Unguarded(b, date) ==
  IF b.requirements = NullObject
  THEN [ workflow |-> NullObject, error |-> "TypeError" ]
  ELSE [ workflow |->
           [ name |-> b.description, description |-> b.description,
             requirements |-> b.requirements, steps |-> b.steps,
             triggers |-> b.requirements.triggers, createdAt |-> date ],
         error |-> Null ]

\* WorkflowBuilder.getWorkflow: the object it returns, or the message of
\* the error it throws; reading the triggers of null requirements throws
getWorkflow(b, date) ==
  IF ~b.validated
  THEN [ workflow |-> NullObject, error |-> "Workflow not validated" ]
  ELSE IF b.requirements = NullObject
  THEN [ workflow |-> NullObject, error |-> "TypeError" ]
  ELSE [ workflow |->
           [ name |-> b.description, description |-> b.description,
             requirements |-> b.requirements, steps |-> b.steps,
             triggers |-> b.requirements.triggers, createdAt |-> date ],
         error |-> Null ]

----------------------------------------------------------------------------
(* State *)

VARIABLES
  pc,                \* position of the call in progress
  op,                \* the entry point that was called
  plan,              \* the plan created or being executed
  idx,               \* index in plan.steps of the step being executed
  results,           \* the results object of executePlan
  calls,             \* collaborators called so far by executeAgenticTask
  pendingApprovals,  \* ApprovalSystem.pendingApprovals, in insertion order
  applied,           \* change lists handed to ApprovalSystem.applyChanges
  decisions,         \* what the user answers to each approval question
  batch,             \* the changes last handed to coordinateChanges
  coordinated,       \* the value coordinateChanges returned for batch
  index,             \* CodebaseAnalyzer.index, in insertion order
  searchPc,          \* position of the agenticSearch call in progress
  query,             \* the query last handed to agenticSearch
  searchResults,     \* the value agenticSearch returned for query
  initPc,            \* position of the initialize() call in progress
  agents,            \* the keys of AgenticEngine.agents, in insertion order
  workflows,         \* the keys of AgenticEngine.workflows, in insertion order
  listing,           \* the files enumerated by the build last started
  built,             \* number of files of listing that build has stored
  clock,             \* the date, which advances from one build to the next
  lastReport,        \* the last generateReport call, with what it found
  prevReport,        \* the generateReport call before it
  filePc,            \* position of the analysis of one content
  content,           \* the content last analysed
  analysis,          \* its complexity and its dependencies
  appended,          \* the separator and the if block appended to it
  before,            \* the analysis of the content before the if block
  now,               \* what Date.now() returns
  createdIds,        \* the ids of the plans createPlan returned so far
  chatPc,            \* position of the processAgenticMessage call
  message,           \* the message it was called with
  conversationHistory, \* EnhancedChatSession.conversationHistory
  historyBefore,     \* conversationHistory when the call started
  engineCalls,       \* the arguments of its executeAgenticTask calls
  managerAgents,     \* the values of AgentsManager.agents
  agentFiles,        \* the files of the agents directory
  managerCall,       \* the last call to the AgentsManager
  runs,              \* the executePlan calls in flight together
  builder,           \* the WorkflowBuilder at hand
  validatePlanCompleted, \* validatePlan has completed on it without error
  generatedByEngine, \* it was returned by AgenticEngine.generateWorkflow
  lastGetWorkflow    \* the last getWorkflow call on it, with these two

planVars ==
  <<pc, op, plan, idx, results, calls, pendingApprovals, applied, decisions>>

coordVars == <<batch, coordinated>>

searchVars == <<index, searchPc, query, searchResults>>

buildVars ==
  <<initPc, agents, workflows, listing, built, clock, lastReport, prevReport>>

fileVars == <<filePc, content, analysis, appended, before>>

dateVars == <<now, createdIds>>

chatVars ==
  <<chatPc, message, conversationHistory, historyBefore, engineCalls>>

managerVars == <<managerAgents, agentFiles, managerCall>>

builderVars ==
  <<builder, validatePlanCompleted, generatedByEngine, lastGetWorkflow>>

sessionVars == <<dateVars, chatVars, managerVars, runs, builderVars>>

vars == <<planVars, coordVars, searchVars, buildVars, fileVars, sessionVars>>

NoReport ==
  [text |-> <<>>, build |-> 0, complete |-> FALSE, stored |-> 0, listed |-> 0,
   files |-> {}]

NoPlan ==
  [ id |-> "", task |-> <<>>, steps |-> <<>>, dependencies |-> <<>>,
    estimatedTime |-> 0, risk |-> "low" ]

NoResults ==
  [ status |-> "none", steps |-> <<>>, errors |-> <<>>, changes |-> <<>> ]

\* the plans handed directly to executePlan, over one step template
DirectPlans ==
  LET StepPool ==
        { Step("step", "Create file", agent, critical, 30) :
            agent \in {"multi-file-editor", "test-coordinator"},
            critical \in BOOLEAN }
  IN { [ id |-> "test-plan", task |-> <<"T","e","s","t">>, steps |-> steps,
         dependencies |-> <<>>, estimatedTime |-> 30, risk |-> "low" ] :
         steps \in SeqsOf(StepPool, 0, MaxSteps) }

\* a call that was not made, or has returned
NoRun ==
  [ pc |-> "idle", plan |-> NoPlan, idx |-> 0, results |-> NoResults,
    started |-> <<>> ]

Init ==
  /\ pc = "idle"
  /\ op = "none"
  /\ plan = NoPlan
  /\ idx = 0
  /\ results = NoResults
  /\ calls = <<>>
  /\ pendingApprovals = <<>>
  /\ applied = <<>>
  /\ decisions = <<>>
  /\ batch = <<>>
  /\ coordinated = NoCoordination
  /\ index = <<>>
  /\ searchPc = "idle"
  /\ query = <<>>
  /\ searchResults = <<>>
  /\ initPc = "idle"
  /\ agents = <<>>
  /\ workflows = <<>>
  /\ listing = <<>>
  /\ built = 0
  /\ clock = 0
  /\ lastReport = NoReport
  /\ prevReport = NoReport
  /\ filePc = "idle"
  /\ content = <<>>
  /\ analysis = [complexity |-> 0, dependencies |-> <<>>]
  /\ appended = [separator |-> <<>>, block |-> <<>>]
  /\ before = [complexity |-> 0, dependencies |-> <<>>]
  /\ now = 0
  /\ createdIds = {}
  /\ chatPc = "idle"
  /\ message = <<>>
  /\ conversationHistory = <<>>
  /\ historyBefore = <<>>
  /\ engineCalls = <<>>
  /\ managerAgents = {}
  /\ agentFiles = {loadAgent("debugger").filePath}
  /\ managerCall = ManagerCall("none", "", {}, NullObject, {}, Null)
  /\ runs = [r \in Runs |-> NoRun]
  /\ builder = NullObject
  /\ validatePlanCompleted = FALSE
  /\ generatedByEngine = FALSE
  /\ lastGetWorkflow = NullObject

\* executePlan up to its first await: the loop starts, or an empty plan
\* completes at once
BeginExecutePlan(p) ==
  /\ plan' = p
  /\ IF Len(p.steps) = 0
     THEN /\ results' = executePlanComplete(InitialResults)
          /\ pc' = "returned"
          /\ idx' = 0
     ELSE /\ results' = InitialResults
          /\ pc' = "running"
          /\ idx' = 1

\* coordinator.createPlan(task) called on its own; the date is read, and
\* moves on only by Tick
CallCreatePlan ==
  /\ pc = "idle"
  /\ \E task \in Tasks : plan' = createPlan(task, now)
  /\ op' = "createPlan"
  /\ pc' = "returned"
  /\ UNCHANGED <<idx, results, calls, pendingApprovals, applied, decisions>>
  /\ UNCHANGED <<coordVars, searchVars, buildVars, fileVars, sessionVars>>

\* coordinator.executePlan(plan) called on its own
CallExecutePlan ==
  /\ pc = "idle"
  /\ \E p \in DirectPlans : BeginExecutePlan(p)
  /\ op' = "executePlan"
  /\ UNCHANGED <<calls, pendingApprovals, applied, decisions>>
  /\ UNCHANGED <<coordVars, searchVars, buildVars, fileVars, sessionVars>>

\* AgenticEngine.executeAgenticTask(task) up to the first step of the plan
ExecuteAgenticTask ==
  /\ pc = "idle"
  /\ Len(pendingApprovals) < MaxApprovals
  /\ \E task \in Tasks : BeginExecutePlan(createPlan(task, now))
  /\ op' = "executeAgenticTask"
  /\ calls' = <<"createPlan", "executePlan">>
  /\ UNCHANGED <<pendingApprovals, applied, decisions>>
  /\ UNCHANGED <<coordVars, searchVars, buildVars, fileVars, sessionVars>>

\* One iteration of the loop of executePlan: executeStep resolves, the body
\* of the loop handles its result, and the loop goes on, ends or is left
\* through the catch block.
RunStep ==
  /\ pc = "running"
  /\ \E fault \in Faults :
       LET step == plan.steps[idx]
           r == executePlanStep(results, step, executeStep(step, fault))
       IN IF r.thrown # Null
          THEN /\ results' = executePlanCatch(r.results, r.thrown)
               /\ pc' = "returned"
               /\ idx' = idx
          ELSE IF idx = Len(plan.steps)
          THEN /\ results' = executePlanComplete(r.results)
               /\ pc' = "returned"
               /\ idx' = idx
          ELSE /\ results' = r.results
               /\ pc' = "running"
               /\ idx' = idx + 1
  /\ UNCHANGED <<op, plan, calls, pendingApprovals, applied, decisions>>
  /\ UNCHANGED <<coordVars, searchVars, buildVars, fileVars, sessionVars>>

\* ApprovalSystem.processResults(results), called by executeAgenticTask
ProcessResults ==
  /\ pc = "returned"
  /\ op = "executeAgenticTask"
  /\ calls' = Append(calls, "processResults")
  /\ IF Len(results.changes) > 0
     THEN LET approval == createApproval(results)
          IN /\ pendingApprovals' = Append(pendingApprovals, approval)
             \* the question is printed; what the user would answer is
             \* never read
             /\ \E answer \in BOOLEAN : decisions' = Append(decisions, answer)
             /\ applied' = IF requestApproval(approval)
                           THEN Append(applied, approval.changes)
                           ELSE applied
     ELSE UNCHANGED <<pendingApprovals, applied, decisions>>
  /\ pc' = "done"
  /\ UNCHANGED <<op, plan, idx, results>>
  /\ UNCHANGED <<coordVars, searchVars, buildVars, fileVars, sessionVars>>

\* the caller receives the value of the call; the engine is idle again
Return ==
  /\ \/ pc = "returned" /\ op # "executeAgenticTask"
     \/ pc = "done"
  /\ pc' = "idle"
  /\ op' = "none"
  /\ plan' = NoPlan
  /\ idx' = 0
  /\ results' = NoResults
  /\ calls' = <<>>
  /\ UNCHANGED <<pendingApprovals, applied, decisions>>
  /\ UNCHANGED <<coordVars, searchVars, buildVars, fileVars, sessionVars>>

Next ==
  \/ CallCreatePlan
  \/ CallExecutePlan
  \/ ExecuteAgenticTask
  \/ RunStep
  \/ ProcessResults
  \/ Return

Spec == Init /\ [][Next]_vars

----------------------------------------------------------------------------
(* Change coordination *)

\* AgenticEngine.coordinateChanges(changes)
CoordinateChanges ==
  /\ batch = <<>>
  /\ \E b \in UNION {BatchesOfLen(n) : n \in 0..MaxBatch} :
       /\ batch' = b
       /\ coordinated' = coordinateChanges(b)
  /\ UNCHANGED <<planVars, searchVars, buildVars, fileVars, sessionVars>>

\* the caller receives the coordination result
CoordinationReturned ==
  /\ batch # <<>>
  /\ batch' = <<>>
  /\ coordinated' = NoCoordination
  /\ UNCHANGED <<planVars, searchVars, buildVars, fileVars, sessionVars>>

CoordNext ==
  \/ CoordinateChanges
  \/ CoordinationReturned

CoordSpec == Init /\ [][CoordNext]_vars

----------------------------------------------------------------------------
(* Codebase search *)

\* CodebaseAnalyzer.indexFiles(), run to its end
IndexFiles ==
  /\ searchPc = "idle"
  /\ \E l \in Listings : index' = indexFiles(index, l)
  /\ UNCHANGED <<searchPc, query, searchResults>>
  /\ UNCHANGED <<planVars, coordVars, buildVars, fileVars, sessionVars>>

\* AgenticEngine.searchCodebase(query)
SearchCodebase ==
  /\ searchPc = "idle"
  /\ \E q \in Queries :
       /\ query' = q
       /\ searchResults' = agenticSearch(index, q)
  /\ searchPc' = "returned"
  /\ UNCHANGED index
  /\ UNCHANGED <<planVars, coordVars, buildVars, fileVars, sessionVars>>

\* the caller receives the search results
SearchReturned ==
  /\ searchPc = "returned"
  /\ searchPc' = "idle"
  /\ query' = <<>>
  /\ searchResults' = <<>>
  /\ UNCHANGED index
  /\ UNCHANGED <<planVars, coordVars, buildVars, fileVars, sessionVars>>

SearchNext ==
  \/ IndexFiles
  \/ SearchCodebase
  \/ SearchReturned

SearchSpec == Init /\ [][SearchNext]_vars

----------------------------------------------------------------------------
(* Builds of the codebase index and reports.  A build is suspended at     *)
(* every file read of indexFiles; what follows the last read, up to the   *)
(* end of analyze(), runs without suspension.  generateReport reads the   *)
(* index as it finds it.                                                   *)

\* AgenticEngine.initialize(), up to the first file read of indexFiles:
\* loadAgents, loadWorkflows and the enumeration of the files; the whole
\* of it when no file is enumerated
Initialize ==
  /\ initPc # "indexing"
  /\ clock < MaxBuilds
  /\ clock' = clock + 1
  /\ agents' = setAll(agents, AgentTypes)
  /\ workflows' = setAll(workflows, WorkflowTypes)
  /\ built' = 0
  /\ \E files \in ProjectListings :
       /\ listing' = files
       /\ IF Len(files) = 0
          THEN /\ index' = analyzeAfterIndexFiles(index).index
               /\ initPc' = analyzeAfterIndexFiles(index).outcome
          ELSE /\ index' = index
               /\ initPc' = "indexing"
  /\ UNCHANGED <<lastReport, prevReport>>
  /\ UNCHANGED <<searchPc, query, searchResults>>
  /\ UNCHANGED <<planVars, coordVars, fileVars, sessionVars>>

\* indexFiles: the read of the next file completes, the file is analysed
\* and stored; after the last file analyze() runs to its end
IndexOneFile ==
  /\ initPc = "indexing"
  /\ built < Len(listing)
  /\ built' = built + 1
  /\ LET file == listing[built + 1]
         stored == indexSet(index, analyzeFile(file.path, file.content, clock))
     IN IF built + 1 < Len(listing)
        THEN /\ index' = stored
             /\ initPc' = "indexing"
        ELSE /\ index' = analyzeAfterIndexFiles(stored).index
             /\ initPc' = analyzeAfterIndexFiles(stored).outcome
  /\ UNCHANGED <<agents, workflows, listing, clock, lastReport, prevReport>>
  /\ UNCHANGED <<searchPc, query, searchResults>>
  /\ UNCHANGED <<planVars, coordVars, fileVars, sessionVars>>

\* CodebaseAnalyzer.generateReport(), with what the call found: the index
\* it read, the build it ran in or after, whether that build had ended, the
\* number of files that build had stored and the files it enumerated
GenerateReport ==
  /\ prevReport' = lastReport
  /\ lastReport' =
       [ text |-> generateReport(index),
         build |-> clock,
         complete |-> initPc # "indexing",
         stored |-> built,
         listed |-> Len(listing),
         files |-> {listing[i] : i \in 1..Len(listing)},
         index |-> index ]
  /\ UNCHANGED <<initPc, agents, workflows, listing, built, clock>>
  /\ UNCHANGED searchVars
  /\ UNCHANGED <<planVars, coordVars, fileVars, sessionVars>>

IndexNext ==
  \/ Initialize
  \/ IndexOneFile
  \/ GenerateReport

IndexSpec == Init /\ [][IndexNext]_vars

----------------------------------------------------------------------------
(* The analysis of one content: calculateComplexity and                    *)
(* extractDependencies applied to a content, and to the content with an   *)
(* if block appended.                                                      *)

\* calculateComplexity(content) and extractDependencies(content)
AnalyzeContent ==
  /\ filePc = "idle"
  /\ \E c \in Contents :
       /\ content' = c
       /\ analysis' = [ complexity |-> calculateComplexity(c),
                        dependencies |-> extractDependencies(c) ]
  /\ filePc' = "analyzed"
  /\ UNCHANGED <<appended, before>>
  /\ UNCHANGED <<planVars, coordVars, searchVars, buildVars, sessionVars>>

\* the same content with an if block appended is analysed: "if (x == 1) {}"
\* or "if (y) {}", after nothing, a space or a line feed
AppendIfBlock ==
  /\ filePc = "analyzed"
  /\ \E separator \in {<<>>, <<" ">>, <<"\n">>},
        block \in { <<"i","f"," ","(","x"," ","=","="," ","1",")"," ","{","}">>,
                    <<"i","f"," ","(","y",")"," ","{","}">> } :
       /\ appended' = [separator |-> separator, block |-> block]
       /\ content' = content \o separator \o block
       /\ analysis' =
            [ complexity |-> calculateComplexity(content \o separator \o block),
              dependencies |-> extractDependencies(content \o separator \o block) ]
  /\ before' = analysis
  /\ filePc' = "appended"
  /\ UNCHANGED <<planVars, coordVars, searchVars, buildVars, sessionVars>>

\* the results are dropped
ForgetContent ==
  /\ filePc # "idle"
  /\ filePc' = "idle"
  /\ content' = <<>>
  /\ analysis' = [complexity |-> 0, dependencies |-> <<>>]
  /\ appended' = [separator |-> <<>>, block |-> <<>>]
  /\ before' = [complexity |-> 0, dependencies |-> <<>>]
  /\ UNCHANGED <<planVars, coordVars, searchVars, buildVars, sessionVars>>

AnalyzeNext ==
  \/ AnalyzeContent
  \/ AppendIfBlock
  \/ ForgetContent

AnalyzeSpec == Init /\ [][AnalyzeNext]_vars

----------------------------------------------------------------------------
(* Successive createPlan calls under a clock *)

\* Date.now() moves on by a millisecond
Tick ==
  /\ now < MaxDate
  /\ now' = now + 1
  /\ UNCHANGED createdIds
  /\ UNCHANGED <<planVars, coordVars, searchVars, buildVars, fileVars>>
  /\ UNCHANGED <<chatVars, managerVars, runs, builderVars>>

\* the caller of createPlan receives the plan and keeps its id
PlanReturned ==
  /\ pc = "returned"
  /\ op = "createPlan"
  /\ createdIds' = createdIds \cup {plan.id}
  /\ pc' = "idle"
  /\ op' = "none"
  /\ plan' = NoPlan
  /\ UNCHANGED <<idx, results, calls, pendingApprovals, applied, decisions>>
  /\ UNCHANGED now
  /\ UNCHANGED <<coordVars, searchVars, buildVars, fileVars>>
  /\ UNCHANGED <<chatVars, managerVars, runs, builderVars>>

PlanNext ==
  \/ Tick
  \/ CallCreatePlan
  \/ PlanReturned

PlanSpec == Init /\ [][PlanNext]_vars

----------------------------------------------------------------------------
(* Chat messages *)

\* processAgenticMessage(message) up to its first await: a complex task is
\* handed to the engine; any other message gets the canned answer of
\* getAIResponse, which cannot fail, and is recorded
ProcessAgenticMessage ==
  /\ chatPc = "idle"
  /\ Len(conversationHistory) < MaxHistory
  /\ \E m \in Messages :
       /\ message' = m
       /\ IF isComplexTask(m)
          THEN /\ engineCalls' = <<m>>
               /\ chatPc' = "executing"
               /\ UNCHANGED conversationHistory
          ELSE /\ engineCalls' = <<>>
               /\ chatPc' = "processed"
               /\ conversationHistory' =
                    processed(conversationHistory, m, now, FALSE)
  /\ historyBefore' = conversationHistory
  /\ UNCHANGED <<planVars, coordVars, searchVars, buildVars, fileVars>>
  /\ UNCHANGED <<dateVars, managerVars, runs, builderVars>>

\* the promise of executeAgenticTask settles: it resolves, or it rejects
\* and the catch block reports the error
AgenticTaskSettles ==
  /\ chatPc = "executing"
  /\ \E thrown \in BOOLEAN :
       /\ conversationHistory' =
            processed(conversationHistory, message, now, thrown)
       /\ chatPc' = IF thrown THEN "failed" ELSE "processed"
  /\ UNCHANGED <<message, historyBefore, engineCalls>>
  /\ UNCHANGED <<planVars, coordVars, searchVars, buildVars, fileVars>>
  /\ UNCHANGED <<dateVars, managerVars, runs, builderVars>>

\* processAgenticMessage returns to the chat loop
MessageProcessed ==
  /\ chatPc \in {"processed", "failed"}
  /\ chatPc' = "idle"
  /\ message' = <<>>
  /\ historyBefore' = <<>>
  /\ engineCalls' = <<>>
  /\ UNCHANGED conversationHistory
  /\ UNCHANGED <<planVars, coordVars, searchVars, buildVars, fileVars>>
  /\ UNCHANGED <<dateVars, managerVars, runs, builderVars>>

ChatNext ==
  \/ ProcessAgenticMessage
  \/ AgenticTaskSettles
  \/ MessageProcessed

ChatSpec == Init /\ [][ChatNext]_vars

----------------------------------------------------------------------------
(* Agents *)

\* manager.loadAgents()
LoadAgents ==
  /\ managerAgents' = loadAgents(managerAgents, agentFiles)
  /\ managerCall' =
       ManagerCall("loadAgents", "", managerAgents, NullObject, {}, Null)
  /\ UNCHANGED agentFiles
  /\ UNCHANGED <<planVars, coordVars, searchVars, buildVars, fileVars>>
  /\ UNCHANGED <<dateVars, chatVars, runs, builderVars>>

\* manager.createAgent({name, description}): the file is written and the
\* directory is loaded again
CreateAgent ==
  /\ \E name \in AgentNames :
       /\ agentFiles' = agentFiles \cup {loadAgent(name).filePath}
       /\ managerAgents' = loadAgents(managerAgents, agentFiles')
       /\ managerCall' =
            ManagerCall("createAgent", name, managerAgents, NullObject, {},
                        Null)
  /\ UNCHANGED <<planVars, coordVars, searchVars, buildVars, fileVars>>
  /\ UNCHANGED <<dateVars, chatVars, runs, builderVars>>

\* manager.getAgent(agentName)
GetAgent ==
  /\ \E name \in AgentNames :
       managerCall' =
         ManagerCall("getAgent", name, managerAgents,
                     getAgent(managerAgents, name), {}, Null)
  /\ UNCHANGED <<managerAgents, agentFiles>>
  /\ UNCHANGED <<planVars, coordVars, searchVars, buildVars, fileVars>>
  /\ UNCHANGED <<dateVars, chatVars, runs, builderVars>>

\* manager.deleteAgent(agentName)
DeleteAgent ==
  /\ \E name \in AgentNames :
       LET r == deleteAgent(managerAgents, agentFiles, name)
       IN /\ managerAgents' = r.agents
          /\ agentFiles' = r.files
          /\ managerCall' =
               ManagerCall("deleteAgent", name, managerAgents, NullObject,
                           r.unlinked, r.error)
  /\ UNCHANGED <<planVars, coordVars, searchVars, buildVars, fileVars>>
  /\ UNCHANGED <<dateVars, chatVars, runs, builderVars>>

ManagerNext ==
  \/ LoadAgents
  \/ CreateAgent
  \/ GetAgent
  \/ DeleteAgent

ManagerSpec == Init /\ [][ManagerNext]_vars

----------------------------------------------------------------------------
(* Interleaved plan executions *)

\* coordinator.executePlan(plan) is called while another call may be
\* waiting for its timer
StartRun ==
  /\ \E r \in Runs :
       /\ runs[r].pc = "idle"
       /\ \E p \in RunPlans(r) : runs' = [runs EXCEPT ![r] = beginRun(p)]
  /\ UNCHANGED <<planVars, coordVars, searchVars, buildVars, fileVars>>
  /\ UNCHANGED <<dateVars, chatVars, managerVars, builderVars>>

\* the timer of one of the calls fires
TimerFires ==
  /\ \E r \in Runs :
       /\ runs[r].pc = "running"
       /\ \E fault \in Faults : runs' = stepSettles(runs, r, fault)
  /\ UNCHANGED <<planVars, coordVars, searchVars, buildVars, fileVars>>
  /\ UNCHANGED <<dateVars, chatVars, managerVars, builderVars>>

\* the caller receives the results object
RunReturned ==
  /\ \E r \in Runs :
       /\ runs[r].pc = "returned"
       /\ runs' = [runs EXCEPT ![r] = NoRun]
  /\ UNCHANGED <<planVars, coordVars, searchVars, buildVars, fileVars>>
  /\ UNCHANGED <<dateVars, chatVars, managerVars, builderVars>>

ConcurrentNext ==
  \/ StartRun
  \/ TimerFires
  \/ RunReturned

ConcurrentSpec == Init /\ [][ConcurrentNext]_vars

----------------------------------------------------------------------------
(* Workflow builders *)

\* new WorkflowBuilder(description), by a caller of the class
NewBuilder ==
  /\ \E description \in Descriptions : builder' = newBuilder(description)
  /\ validatePlanCompleted' = FALSE
  /\ generatedByEngine' = FALSE
  /\ lastGetWorkflow' = NullObject
  /\ UNCHANGED <<planVars, coordVars, searchVars, buildVars, fileVars>>
  /\ UNCHANGED <<dateVars, chatVars, managerVars, runs>>

\* builder.analyzeRequirements()
BuilderAnalyzes ==
  /\ builder # NullObject
  /\ builder' = builderAnalyzeRequirements(builder)
  /\ UNCHANGED <<validatePlanCompleted, generatedByEngine, lastGetWorkflow>>
  /\ UNCHANGED <<planVars, coordVars, searchVars, buildVars, fileVars>>
  /\ UNCHANGED <<dateVars, chatVars, managerVars, runs>>

\* builder.generateSteps()
BuilderGenerates ==
  /\ builder # NullObject
  /\ builderGenerateSteps(builder).error = Null
       => Len(builderGenerateSteps(builder).builder.steps) <= MaxWorkflowSteps
  /\ builder' = builderGenerateSteps(builder).builder
  /\ UNCHANGED <<validatePlanCompleted, generatedByEngine, lastGetWorkflow>>
  /\ UNCHANGED <<planVars, coordVars, searchVars, buildVars, fileVars>>
  /\ UNCHANGED <<dateVars, chatVars, managerVars, runs>>

\* builder.validatePlan()
BuilderValidates ==
  /\ builder # NullObject
  /\ builder' = validatePlan(builder).builder
  /\ validatePlanCompleted' =
       (validatePlanCompleted \/ validatePlan(builder).error = Null)
  /\ UNCHANGED <<generatedByEngine, lastGetWorkflow>>
  /\ UNCHANGED <<planVars, coordVars, searchVars, buildVars, fileVars>>
  /\ UNCHANGED <<dateVars, chatVars, managerVars, runs>>

\* builder.getWorkflow()
GetWorkflow ==
  /\ builder # NullObject
  /\ lastGetWorkflow' =
       [ outcome |-> getWorkflow(builder, now),
         validatePlanCompleted |-> validatePlanCompleted,
         generatedByEngine |-> generatedByEngine ]
  /\ UNCHANGED <<builder, validatePlanCompleted, generatedByEngine>>
  /\ UNCHANGED <<planVars, coordVars, searchVars, buildVars, fileVars>>
  /\ UNCHANGED <<dateVars, chatVars, managerVars, runs>>

\* AgenticEngine.generateWorkflow(description): a new builder on which
\* analyzeRequirements, generateSteps and validatePlan are awaited in turn;
\* an error of one of them rejects the call and no builder is returned
GenerateWorkflow ==
  /\ \E description \in Descriptions :
       LET analyzed == builderAnalyzeRequirements(newBuilder(description))
           generated == builderGenerateSteps(analyzed)
           validated == validatePlan(generated.builder)
       IN /\ generated.error = Null
          /\ builder' = validated.builder
          /\ validatePlanCompleted' = (validated.error = Null)
          /\ generatedByEngine' = (validated.error = Null)
  /\ lastGetWorkflow' = NullObject
  /\ UNCHANGED <<planVars, coordVars, searchVars, buildVars, fileVars>>
  /\ UNCHANGED <<dateVars, chatVars, managerVars, runs>>

WorkflowNext ==
  \/ NewBuilder
  \/ BuilderAnalyzes
  \/ BuilderGenerates
  \/ BuilderValidates
  \/ GetWorkflow
  \/ GenerateWorkflow

WorkflowSpec == Init /\ [][WorkflowNext]_vars

----------------------------------------------------------------------------
(* The plan executor with the scheduling of the event loop: the timer of  *)
(* executeStep fires and the continuation of executePlan runs.            *)

LiveSpec == Init /\ [][Next]_vars /\ WF_vars(RunStep)

----------------------------------------------------------------------------
(* Properties of the plan executor *)

\* an executePlan call, made directly or by executeAgenticTask, has returned
Finished ==
  /\ pc \in {"returned", "done"}
  /\ op \in {"executePlan", "executeAgenticTask"}

StepFailed(i) == results.steps[i].status = "error"

CriticalFailure(i) == StepFailed(i) /\ plan.steps[i].critical

NoCriticalFailure == \A i \in 1..Len(results.steps) : ~CriticalFailure(i)

\* C1: when a critical step finishes with status 'error', it is the last
\* step executed (no later step of the plan runs), the call has returned
\* and the status of the result is 'failed'.
CriticalFailureHalts ==
  \A i \in 1..Len(results.steps) :
    CriticalFailure(i) =>
      /\ i = Len(results.steps)
      /\ Finished
      /\ results.status = "failed"

\* a critical step failed while later steps of the plan were still to run
CriticalFailureHaltsWitness ==
  /\ Finished
  /\ Len(results.steps) >= 1
  /\ CriticalFailure(Len(results.steps))
  /\ Len(plan.steps) > Len(results.steps)
  /\ results.status = "failed"

\* C2: a plan whose only step is critical and fails returns a result whose
\* errors list has exactly one entry.
SingleCriticalFailureHasOneError ==
  ( /\ Finished
    /\ Len(plan.steps) = 1
    /\ Len(results.steps) = 1
    /\ CriticalFailure(1) )
  => Len(results.errors) = 1

\* C3: the message of every failed step is in errors; and when no critical
\* step fails, every step of the plan is executed, errors holds one entry
\* per failed step and the final status is 'completed'.
NonCriticalFailureContinues ==
  /\ \A i \in 1..Len(results.steps) :
       StepFailed(i) => arrayIncludes(results.errors, results.steps[i].error)
  /\ (Finished /\ NoCriticalFailure) =>
       /\ Len(results.steps) = Len(plan.steps)
       /\ \A i \in 1..Len(plan.steps) :
            results.steps[i].stepId = plan.steps[i].id
       /\ Len(results.errors) =
            Cardinality({i \in 1..Len(results.steps) : StepFailed(i)})
       /\ results.status = "completed"

\* a non-critical step failed, a later step ran, and the plan completed
NonCriticalFailureContinuesWitness ==
  /\ Finished
  /\ results.status = "completed"
  /\ \E i \in 1..Len(results.steps) :
       /\ StepFailed(i)
       /\ ~plan.steps[i].critical
       /\ i < Len(results.steps)
       /\ results.errors = <<results.steps[i].error>>

\* C4: a returned executePlan call has status 'completed' or 'failed',
\* never 'running'; the error thrown in the loop is the last entry of
\* errors of a failed result; and every call whose loop is running returns.
ExecutePlanTerminates ==
  /\ [](Finished => results.status \in {"completed", "failed"})
  /\ [](Finished /\ results.status = "failed" =>
          /\ Len(results.steps) >= 1
          /\ results.errors[Len(results.errors)] =
               CriticalMessage(results.steps[Len(results.steps)].error))
  /\ (pc = "running") ~> Finished

\* the loop threw in its second iteration and the call returned 'failed'
ExecutePlanTerminatesWitness ==
  /\ Finished
  /\ results.status = "failed"
  /\ Len(results.steps) = 2
  /\ results.errors[Len(results.errors)] =
       CriticalMessage(results.steps[2].error)

\* C11: every change recorded in the changes list of the result of
\* executePlan has type create, modify or delete.
RecordedChangeTypes ==
  \A i \in 1..Len(results.changes) : results.changes[i].type \in ChangeTypes

----------------------------------------------------------------------------
(* Properties of the approval system *)

\* C12: applyChanges is called only for approvals the user approved: the
\* number of applied change lists never exceeds the number of questions the
\* user answers with yes.
AppliedOnlyWhenApproved ==
  Len(applied) <= Cardinality({i \in 1..Len(decisions) : decisions[i]})

----------------------------------------------------------------------------
(* Properties of the task planner *)

\* createPlan(task) has returned plan
Planned == op = "createPlan" /\ pc = "returned"

EditorSteps(p) ==
  {i \in 1..Len(p.steps) :
     p.steps[i].agent = "multi-file-editor" /\ p.steps[i].critical}

\* C5: for a task whose lower-cased text contains 'create' and none of the
\* modify keywords, the plan has exactly one critical multi-file-editor
\* step.
LowerCasedCreateGivesOneEditorStep ==
  Planned =>
    LET text == toLowerCase(plan.task)
    IN ( /\ includes(text, Kw.create)
         /\ ~includes(text, Kw.modify)
         /\ ~includes(text, Kw.update)
         /\ ~includes(text, Kw.change) )
       => Cardinality(EditorSteps(plan)) = 1

HasRequirement(r) ==
  \/ Len(r.fileOperations) > 0
  \/ r.testing
  \/ Len(r.gitOperations) > 0

\* C6: when requirement extraction finds a requirement in the task, the
\* plan has at least one step.
RequirementGivesStep ==
  Planned =>
    (HasRequirement(analyzeRequirements(plan.task)) => Len(plan.steps) >= 1)

----------------------------------------------------------------------------
(* Properties of the change coordinator *)

\* coordinateChanges(batch) has returned coordinated
Coordinated == batch # <<>>

InConflicts(c) ==
  \E k \in 1..Len(coordinated.conflicts) : coordinated.conflicts[k].change = c

Accepted(c) == arrayIncludes(coordinated.changes, c)

\* a different change of the batch modifies the same file
OtherModifyOfSameFile(c) ==
  \E j \in 1..Len(batch) :
    /\ batch[j].ref # c.ref
    /\ batch[j].file = c.file
    /\ batch[j].type = "modify"

\* C7: a change is listed under conflicts exactly when it is a 'modify' and
\* a different change of the batch is a 'modify' of the same file; every
\* other change is accepted.
ConflictIffModifySameFile ==
  Coordinated =>
    \A i \in 1..Len(batch) :
      LET c == batch[i]
      IN /\ InConflicts(c) <=> (c.type = "modify" /\ OtherModifyOfSameFile(c))
         /\ Accepted(c) <=> ~InConflicts(c)

\* two modifies of one file, both in conflicts, none accepted
ConflictIffModifySameFileWitness ==
  /\ Len(batch) = 2
  /\ batch[1].ref # batch[2].ref
  /\ batch[1].file = batch[2].file
  /\ batch[1].type = "modify"
  /\ batch[2].type = "modify"
  /\ Len(coordinated.conflicts) = 2
  /\ coordinated.changes = <<>>

ImportEdge(from, to) ==
  \E k \in 1..Len(coordinated.dependencies) :
    coordinated.dependencies[k] = [from |-> from, to |-> to, type |-> "import"]

JsCreate(c) == c.type = "create" /\ endsWith(c.file, File.ext_js)

\* C8 as stated: every 'create' of a '.js' file has an import edge to every
\* other 'modify' of the batch, those classified as conflicting included.
ImportEdgeToEveryModify ==
  Coordinated =>
    \A i, j \in 1..Len(batch) :
      (JsCreate(batch[i]) /\ batch[j].type = "modify")
        => ImportEdge(batch[i], batch[j])

\* C8 as amended: every 'create' of a '.js' file has an import edge to every
\* 'modify' of the batch that was accepted, and to no change that was
\* classified as conflicting.
ImportEdgeToEveryAcceptedModify ==
  Coordinated =>
    \A i, j \in 1..Len(batch) :
      (JsCreate(batch[i]) /\ batch[j].type = "modify")
        => (ImportEdge(batch[i], batch[j]) <=> Accepted(batch[j]))

\* a '.js' create with an edge to an accepted modify, beside a modify that
\* conflicts and gets no edge
ImportEdgeToEveryAcceptedModifyWitness ==
  /\ Coordinated
  /\ \E i, j, k \in 1..Len(batch) :
       /\ JsCreate(batch[i])
       /\ batch[j].type = "modify"
       /\ Accepted(batch[j])
       /\ ImportEdge(batch[i], batch[j])
       /\ batch[k].type = "modify"
       /\ InConflicts(batch[k])
       /\ ~ImportEdge(batch[i], batch[k])

----------------------------------------------------------------------------
(* Properties of the codebase search *)

\* the record the index holds for a path
IndexRecord(file) == index[CHOOSE i \in 1..Len(index) : index[i].path = file]

\* C9: agenticSearch returns only records of the index whose relevance for
\* the query is strictly greater than 0.7, ordered by non-increasing
\* relevance.
SearchAboveThresholdSorted ==
  searchPc = "returned" =>
    /\ \A i \in 1..Len(searchResults) :
         /\ \E k \in 1..Len(index) : index[k].path = searchResults[i].file
         /\ searchResults[i].relevance =
              calculateRelevance(query, IndexRecord(searchResults[i].file))
         /\ searchResults[i].relevance > RelevanceThreshold
    /\ \A i, j \in 1..Len(searchResults) :
         i < j => searchResults[i].relevance >= searchResults[j].relevance

\* two matches returned in the reverse of the index order, and a record of
\* the index left out
SearchAboveThresholdSortedWitness ==
  /\ searchPc = "returned"
  /\ Len(searchResults) = 2
  /\ Len(index) = 3
  /\ searchResults[1].relevance > searchResults[2].relevance
  /\ \E a, b \in 1..Len(index) :
       /\ a < b
       /\ index[b].path = searchResults[1].file
       /\ index[a].path = searchResults[2].file

----------------------------------------------------------------------------
(* Properties of the task flow *)

\* C10: when the approval system processes the results of executePlan,
\* coordinateChanges has been called on them before.
CoordinatedBeforeApproval ==
  \A j \in 1..Len(calls) :
    calls[j] = "processResults" =>
      \E i \in 1..(j - 1) : calls[i] = "coordinateChanges"

----------------------------------------------------------------------------
(* Properties of the relevance score *)

\* C19: for the query of a search and every record of the index, the path,
\* key-term, purpose and dependency contributions are between 0 and 0.3,
\* 0.4, 0.2 and 0.1, and the relevance is their sum, between 0 and 1.
RelevanceBounded ==
  searchPc = "returned" =>
    \A k \in 1..Len(index) :
      LET terms == queryTermsOf(query)
          ps == pathScore(terms, index[k])
          ks == keyTermScore(terms, index[k])
          us == purposeScore(terms, index[k])
          ds == dependencyScore(terms, index[k])
          relevance == calculateRelevance(query, index[k])
      IN /\ 0 <= ps /\ ps <= PathWeight
         /\ 0 <= ks /\ ks <= KeyTermWeight
         /\ 0 <= us /\ us <= PurposeWeight
         /\ 0 <= ds /\ ds <= DependencyWeight
         /\ relevance = ps + ks + us + ds
         /\ 0 <= relevance /\ relevance <= ScoreOne

\* a query of two terms, both among the key terms of a record whose four
\* contributions are all at their maximum: the relevance is 1
RelevanceBoundedWitness ==
  /\ searchPc = "returned"
  /\ Len(queryTermsOf(query)) = 2
  /\ \E k \in 1..Len(index) :
       /\ keyTermScore(queryTermsOf(query), index[k]) = KeyTermWeight
       /\ calculateRelevance(query, index[k]) = ScoreOne

----------------------------------------------------------------------------
(* Properties of initialize and of the index builds *)

\* C13: initialize() completes without error: no call of it ends rejected,
\* and once a call has ended the agents are the eight agent types and the
\* workflows the five workflow types.
InitializeCompletes ==
  /\ initPc # "rejected"
  /\ initPc = "resolved" => agents = AgentTypes /\ workflows = WorkflowTypes

\* a build of the index has run to the end of indexFiles
BuildEnded == clock > 0 /\ initPc # "indexing"

\* C14: after a build of the index has ended, the keys of the index are
\* exactly the paths of the files that build enumerated.
IndexKeysAreListing ==
  BuildEnded =>
    {index[k].path : k \in 1..Len(index)}
      = {listing[i].path : i \in 1..Len(listing)}

\* C15: a generateReport that runs while a build is suspended between two
\* file reads finds the records of none or of all of the files of that
\* build in the index, never of only some of them.
RebuildIsAtomic ==
  (lastReport # NoReport /\ ~lastReport.complete)
    => lastReport.stored \in {0, lastReport.listed}

\* the report text holds the 'no tests' recommendation
HasNoTestsRecommendation(text) ==
  \E k \in 1..Len(text) : text[k] = <<"- **", "HIGH", "**: ", NoTestsMessage>>

\* C16: the report of an index holds the 'no tests' recommendation exactly
\* when no record of the index has the purpose 'testing'.
NoTestsRecommendationIffNoTestFile ==
  HasNoTestsRecommendation(generateReport(index))
    <=> ~\E k \in 1..Len(index) : index[k].context.purpose = Purpose.testing

\* the last two reports were both made after a build had ended, the later
\* one after the same build as the earlier one or after the next build,
\* which enumerated the same files with the same contents
SuccessiveReports ==
  /\ prevReport # NoReport
  /\ prevReport.complete /\ lastReport.complete
  /\ lastReport.build \in {prevReport.build, prevReport.build + 1}
  /\ lastReport.files = prevReport.files

\* C17: two successive builds over an unchanged file set, each followed by
\* generateReport, give the same report text, and so do two calls of
\* generateReport after the same build, which leave the index as it was.
ReportDeterministic ==
  SuccessiveReports =>
    /\ lastReport.text = prevReport.text
    /\ lastReport.build = prevReport.build => lastReport.index = prevReport.index

\* two builds of the same two files of different types, each followed by a
\* report: the records of the index are those of the second build
ReportDeterministicWitness ==
  /\ SuccessiveReports
  /\ prevReport.build = 1 /\ lastReport.build = 2
  /\ Cardinality(lastReport.files) = 2
  /\ Len(index) = 2
  /\ \A k \in 1..Len(index) : index[k].lastModified = 2
  /\ lastReport.text = prevReport.text

----------------------------------------------------------------------------
(* Properties of the analysis of one content *)

\* the module names of the two statements
mod_a == <<"a">>
mod_b == <<"b">>

\* the content has require('a') and, after it, import ... from 'b'
RequireThenImport ==
  \E i, j \in 1..Len(content) :
    /\ i < j
    /\ matchesAt(content, i, <<"r","e","q","u","i","r","e","(","'","a","'",")">>)
    /\ matchesAt(content, j, <<"f","r","o","m"," ","'","b","'">>)

\* C18 as stated: for a content that has require('a') followed by import
\* ... from 'b', the result of extractDependencies holds 'a' and 'b', 'a'
\* before 'b'.
DependenciesInOrderOfOccurrence ==
  (filePc # "idle" /\ RequireThenImport) =>
    LET d == analysis.dependencies
    IN /\ arrayIncludes(d, mod_a) /\ arrayIncludes(d, mod_b)
       /\ \A i, j \in 1..Len(d) : d[i] = mod_a /\ d[j] = mod_b => i < j

\* C18, amended: the result of extractDependencies holds the names the
\* import expression finds, then the names of the require() calls: for a
\* content that has require('a') followed by import ... from 'b', it holds
\* 'a' and 'b', 'b' before 'a'.
ImportsBeforeRequireCalls ==
  (filePc # "idle" /\ RequireThenImport) =>
    LET d == analysis.dependencies
    IN /\ arrayIncludes(d, mod_a) /\ arrayIncludes(d, mod_b)
       /\ \A i, j \in 1..Len(d) : d[i] = mod_b /\ d[j] = mod_a => i < j

\* the content "const x = require('a'); import y from 'b';" has been
\* analysed
ImportsBeforeRequireCallsWitness ==
  /\ filePc = "analyzed"
  /\ content = Join(<<Fragment.requireA, Fragment.importB>>)
  /\ analysis.dependencies = <<mod_b, mod_a>>

\* C20 as stated: the complexity of a content with an if block appended
\* is at least the complexity of the content.
AppendIfBlockMonotonic ==
  filePc = "appended" => analysis.complexity >= before.complexity

\* C20, amended: the complexity of a content with an if block appended on
\* a new line is at least the complexity of the content.
AppendIfBlockOnNewLineMonotonic ==
  (filePc = "appended" /\ appended.separator = <<"\n">>)
    => analysis.complexity >= before.complexity

\* an if block with a comparison is appended on a new line to a content
\* whose const declaration is followed on its line by a function and a
\* class
AppendIfBlockOnNewLineMonotonicWitness ==
  /\ filePc = "appended"
  /\ appended.separator = <<"\n">>
  /\ includes(appended.block, <<"=">>)
  /\ includes(content, Join(<<Fragment.constFn, Fragment.class>>))
  /\ analysis.complexity > before.complexity

----------------------------------------------------------------------------
(* Plans returned by createPlan *)

\* [C21] A plan returned by createPlan has an id that no plan returned by
\* an earlier createPlan call of the process has, whatever the time between
\* the calls.
PlanIdsDiffer == Planned => plan.id \notin createdIds

\* [C26] In a plan returned by createPlan the dependency edges are exactly
\* the pairs from steps[i-1].id to steps[i].id of adjacent steps with
\* different agents, each once: no edge joins steps that are not adjacent
\* and none joins two steps of the same agent.
DependencyEdgesJoinAdjacentAgents ==
  Planned =>
    LET steps == plan.steps
        edges == plan.dependencies
        joins(e, i) == e.from = steps[i-1].id /\ e.to = steps[i].id
    IN /\ \A k \in 1..Len(edges) :
            \E i \in 2..Len(steps) :
               joins(edges[k], i) /\ steps[i-1].agent # steps[i].agent
       /\ \A i \in 2..Len(steps) :
            steps[i-1].agent # steps[i].agent
              => \E k \in 1..Len(edges) : joins(edges[k], i)
       /\ \A k, l \in 1..Len(edges) : k # l => edges[k] # edges[l]

\* a plan with two adjacent editor steps and two changes of agent
DependencyEdgesJoinAdjacentAgentsWitness ==
  /\ Planned
  /\ Len(plan.steps) = 4
  /\ plan.steps[1].agent = plan.steps[2].agent
  /\ Len(plan.dependencies) = 2

\* [C29] A plan returned by createPlan has risk 'low': it has at most four
\* steps, which are among create, modify, test and git-commit in that
\* order, and none of them is assigned to 'security-auditor'.
CreatedPlanRiskIsLow ==
  Planned =>
    LET steps == plan.steps
        rank == [ create_files |-> 1, modify_files |-> 2,
                  run_tests |-> 3, git_commit |-> 4 ]
    IN /\ plan.risk = "low"
       /\ Len(steps) <= 4
       /\ \A i \in 1..Len(steps) :
            /\ steps[i].agent # "security-auditor"
            /\ steps[i].id \in DOMAIN rank
       /\ \A i, j \in 1..Len(steps) :
            i < j => rank[steps[i].id] < rank[steps[j].id]

\* the longest plan the planner emits
CreatedPlanRiskIsLowWitness ==
  /\ Planned
  /\ Len(plan.steps) = 4
  /\ plan.steps[4].id = "git_commit"

----------------------------------------------------------------------------
(* Approvals after their changes were applied *)

\* [C30] An approval whose changes processResults has applied is no longer
\* held as pending: it is not in pendingApprovals any more, or its status
\* is not 'pending'; and processResults on a result without changes
\* creates no approval.
AppliedApprovalNotPending ==
  /\ \A i \in 1..Len(pendingApprovals) :
       (i <= Len(applied) /\ applied[i] = pendingApprovals[i].changes)
         => pendingApprovals[i].status # "pending"
  /\ (pc = "done" /\ Len(results.changes) = 0)
       => Len(pendingApprovals) = Len(applied)

----------------------------------------------------------------------------
(* The two lists of a coordination result *)

\* [C25] coordinateChanges partitions its input: every element of the batch
\* is in the output once, either in changes or as the change of a conflicts
\* entry and never in both, and each of the two lists holds its elements in
\* the order of the batch.
CoordinationPartitionsBatch ==
  Coordinated =>
    LET conflicting ==
          [ k \in 1..Len(coordinated.conflicts) |->
              coordinated.conflicts[k].change ]
    IN /\ \A i \in 1..Len(batch) :
            Accepted(batch[i]) # InConflicts(batch[i])
       /\ SelectSeq(batch, Accepted) = coordinated.changes
       /\ SelectSeq(batch, InConflicts) = conflicting
       /\ Len(coordinated.changes) + Len(conflicting) = Len(batch)

\* an accepted change between two conflicting ones, and an accepted change
\* that the batch holds twice
CoordinationPartitionsBatchWitness ==
  /\ Len(batch) = 4
  /\ InConflicts(batch[1])
  /\ Accepted(batch[2])
  /\ InConflicts(batch[3])
  /\ batch[4] = batch[2]
  /\ Len(coordinated.changes) = 2

----------------------------------------------------------------------------
(* Properties of the chat session *)

\* [C22] isComplexTask is true of every message of more than three words
\* whose first word is create, refactor, implement, migrate or add, and
\* false of the short questions.
ChangeRequestsAreComplexTasks ==
  chatPc # "idle" =>
    LET words == split(toLowerCase(message))
        verbs == { <<"c","r","e","a","t","e">>,
                   <<"r","e","f","a","c","t","o","r">>,
                   <<"i","m","p","l","e","m","e","n","t">>,
                   <<"m","i","g","r","a","t","e">>,
                   <<"a","d","d">> }
    IN /\ (Len(words) > 3 /\ words[1] \in verbs) => isComplexTask(message)
       /\ message \in SimpleTasks => ~isComplexTask(message)

\* [C23] processAgenticMessage calls executeAgenticTask, once and with the
\* message, exactly when isComplexTask(message) holds; when it succeeds the
\* history has one more entry, for this message, labelled 'Agentic' for a
\* complex task and 'Direct' otherwise; when it fails the history is what
\* it was.
MessageRecordedOnSuccessOnly ==
  /\ chatPc # "idle" =>
       engineCalls = IF isComplexTask(message) THEN <<message>> ELSE <<>>
  /\ chatPc = "processed" =>
       /\ Len(conversationHistory) = Len(historyBefore) + 1
       /\ SubSeq(conversationHistory, 1, Len(historyBefore)) = historyBefore
       /\ LET entry == conversationHistory[Len(conversationHistory)]
          IN /\ entry.user = message
             /\ entry.assistant =
                  IF Len(engineCalls) > 0 THEN "Agentic" ELSE "Direct"
  /\ chatPc \in {"executing", "failed"} =>
       conversationHistory = historyBefore

\* a complex task failed after another complex task was recorded
MessageRecordedOnSuccessOnlyWitness ==
  /\ chatPc = "failed"
  /\ Len(engineCalls) = 1
  /\ Len(conversationHistory) = 1
  /\ conversationHistory[1].assistant = "Agentic"
  /\ conversationHistory[1].user # message

----------------------------------------------------------------------------
(* Unknown agents *)

\* [C24] deleteAgent(name) for a name that is not among the loaded agents
\* fails with "Agent '<name>' not found", hands no path to fs.unlink and
\* leaves the loaded agents as they were; getAgent of such a name returns
\* null.
UnknownAgentNotFound ==
  (\A a \in managerCall.before : a.name # managerCall.name) =>
    /\ managerCall.op = "deleteAgent" =>
         /\ managerCall.error = "Agent '" \o managerCall.name \o "' not found"
         /\ managerCall.unlinked = {}
         /\ managerAgents = managerCall.before
    /\ managerCall.op = "getAgent" => managerCall.result = NullObject

\* the deletion of an agent that is not loaded while two others are, with
\* their files
UnknownAgentNotFoundWitness ==
  /\ managerCall.op = "deleteAgent"
  /\ managerCall.name = "non-existent"
  /\ managerCall.error # Null
  /\ Cardinality(managerAgents) = 2
  /\ Cardinality(agentFiles) = 2

----------------------------------------------------------------------------
(* Plans executed side by side *)

\* [C27] Of every executePlan call, alone or interleaved with another one:
\* the step results are, in order, results of a prefix of the steps of its
\* own plan; executeStep was called for those steps and, while the call is
\* waiting, for the one step after them, never for more; and the changes
\* are those of its own completed steps.
RunsAreSequentialAndApart ==
  \A r \in Runs :
    LET run == runs[r]
        steps == run.plan.steps
        done == run.results.steps
    IN run.pc # "idle" =>
         /\ Len(done) <= Len(steps)
         /\ \A k \in 1..Len(done) :
              /\ done[k].stepId = steps[k].id
              /\ done[k].action = steps[k].action
         /\ Len(run.started) =
              Len(done) + (IF run.pc = "running" THEN 1 ELSE 0)
         /\ \A k \in 1..Len(run.started) : run.started[k] = steps[k].id
         /\ Len(run.results.changes) =
              Cardinality({k \in 1..Len(done) : done[k].status = "completed"})
         /\ run.pc = "returned" =>
              run.results.status \in {"completed", "failed"}

\* both calls wait for their second step, each with the result and the
\* change of its first
RunsAreSequentialAndApartWitness ==
  \A r \in Runs :
    /\ runs[r].pc = "running"
    /\ runs[r].idx = 2
    /\ Len(runs[r].results.steps) = 1
    /\ Len(runs[r].results.changes) = 1

----------------------------------------------------------------------------
(* Workflows of validated builders *)

\* [C28] getWorkflow returns a workflow only on a builder on which
\* validatePlan has completed without error, and throws 'Workflow not
\* validated' on any other; a builder returned by generateWorkflow is
\* validated, and getWorkflow on it returns its workflow.
WorkflowOnlyWhenValidated ==
  /\ generatedByEngine => (validatePlanCompleted /\ builder.validated)
  /\ lastGetWorkflow # NullObject =>
       /\ lastGetWorkflow.outcome.workflow # NullObject
            => lastGetWorkflow.validatePlanCompleted
       /\ ~lastGetWorkflow.validatePlanCompleted
            => lastGetWorkflow.outcome.error = "Workflow not validated"
       /\ lastGetWorkflow.generatedByEngine
            => /\ lastGetWorkflow.outcome.error = Null
               /\ lastGetWorkflow.outcome.workflow # NullObject

\* getWorkflow has thrown on a builder with requirements and steps that
\* was never validated
WorkflowOnlyWhenValidatedWitness ==
  /\ lastGetWorkflow # NullObject
  /\ lastGetWorkflow.outcome.error = "Workflow not validated"
  /\ builder.requirements # NullObject
  /\ Len(builder.steps) > 0
  /\ ~generatedByEngine

====
